---- MODULE Spec2Model ----
(***************************************************************************)
(* Model of the design rule checker of pcbnew (src/pcbnew/drc/drc.cpp):    *)
(* the orchestrator DRC::RunTests, the net class conformance check, the    *)
(* marker sink, the track scan, the unconnected test and the footprint     *)
(* reconciliation.                                                         *)
(***************************************************************************)
EXTENDS Integers, Sequences, FiniteSets, TLC

(* ------------------------------------------------------------------ *)
(* Bounds of the model                                                 *)
(* ------------------------------------------------------------------ *)

\* largest value of a net class field (values are 0..MaxVal)
MaxVal == 2

\* largest number of footprints on the board
MaxModules == 3

\* largest number of components in the netlist
MaxComponents == 2

\* largest number of RunTests invocations in a behaviour
MaxRuns == 2

\* largest coordinate of a zone corner (corners are on the grid 0..MaxCoord)
MaxCoord == 3

\* largest clearance of a zone
MaxZoneClearance == 2

\* the largest x of a pad, and the largest clearance of a pad
MaxPadX == 4
MaxPadClearance == 2

\* the latest modification time of the rule file
MaxMtime == 3

\* the width of int in bits, and the internal units in a mil
IntBits == 6
IU_PER_MILS == 1

(* ------------------------------------------------------------------ *)
(* Error codes                                                         *)
(* ------------------------------------------------------------------ *)

NetClassCodes ==
    { "DRCE_NETCLASS_CLEARANCE", "DRCE_NETCLASS_TRACKWIDTH", "DRCE_NETCLASS_VIASIZE",
      "DRCE_NETCLASS_VIADRILLSIZE", "DRCE_NETCLASS_VIAANNULUS", "DRCE_NETCLASS_uVIASIZE",
      "DRCE_NETCLASS_uVIADRILLSIZE" }

(* ------------------------------------------------------------------ *)
(* Helpers                                                             *)
(* ------------------------------------------------------------------ *)

\* a / b of C++ on int: the quotient truncated toward zero (b > 0)
CDiv_floor(a, b) == a \div b
CDiv(a, b) == IF a >= 0 THEN a \div b ELSE -((-a) \div b)

(* ------------------------------------------------------------------ *)
(* Net class conformance check                                         *)
(* ------------------------------------------------------------------ *)

\* new MARKER_PCB( new DRC_ITEM( code ) ... ) with the message of doNetClass:
\* the board minimum, the net class name and the net class value
NetClassMarker(code, required, name, actual) ==
    [code |-> code, items |-> <<>>, msg |-> <<required, name, actual>>]

\* one "if( value < minimum ) { ...; addMarkerToPcb(); ret = false; }" of doNetClass
NetClassField_le(st, code, value, minimum, name) ==
    IF value <= minimum
    THEN [ret |-> FALSE, out |-> Append(st.out, NetClassMarker(code, minimum, name, value))]
    ELSE st
NetClassField(st, code, value, minimum, name) ==
    IF value < minimum
    THEN [ret |-> FALSE, out |-> Append(st.out, NetClassMarker(code, minimum, name, value))]
    ELSE st

\* DRC::doNetClass: ret and the markers handed to addMarkerToPcb, in order
doNetClass(nc, g) ==
    LET s0 == [ret |-> TRUE, out |-> <<>>]
        s1 == NetClassField(s0, "DRCE_NETCLASS_CLEARANCE", nc.Clearance,
                            g.m_MinClearance, nc.name)
        s2 == NetClassField(s1, "DRCE_NETCLASS_TRACKWIDTH", nc.TrackWidth,
                            g.m_TrackMinWidth, nc.name)
        s3 == NetClassField(s2, "DRCE_NETCLASS_VIASIZE", nc.ViaDiameter,
                            g.m_ViasMinSize, nc.name)
        s4 == NetClassField(s3, "DRCE_NETCLASS_VIADRILLSIZE", nc.ViaDrill,
                            g.m_MinThroughDrill, nc.name)
        ncViaAnnulus == CDiv(nc.ViaDiameter - nc.ViaDrill, 2)
        s5 == NetClassField(s4, "DRCE_NETCLASS_VIAANNULUS", ncViaAnnulus,
                            g.m_ViasMinAnnulus, nc.name)
        s6 == NetClassField(s5, "DRCE_NETCLASS_uVIASIZE", nc.uViaDiameter,
                            g.m_MicroViasMinSize, nc.name)
        s7 == NetClassField(s6, "DRCE_NETCLASS_uVIADRILLSIZE", nc.uViaDrill,
                            g.m_MicroViasMinDrill, nc.name)
    IN  s7

\* the loop of DRC::testNetClasses over the user classes, from index i on
RECURSIVE NetClassLoop_stopAtFirst(_, _, _, _)
NetClassLoop_stopAtFirst(classes, g, i, st) ==
    IF i > Len(classes) \/ ~st.ret
    THEN st
    ELSE LET r == doNetClass(classes[i], g)
         IN  NetClassLoop_stopAtFirst(classes, g, i + 1,
                 [ret |-> st.ret /\ r.ret, out |-> st.out \o r.out])

RECURSIVE NetClassLoop(_, _, _, _)
NetClassLoop(classes, g, i, st) ==
    IF i > Len(classes)
    THEN st
    ELSE LET r == doNetClass(classes[i], g)
         IN  NetClassLoop(classes, g, i + 1,
                 [ret |-> IF ~r.ret THEN FALSE ELSE st.ret, out |-> st.out \o r.out])

\* DRC::testNetClasses: the Default class, then every user class in map order
testNetClasses_stopAtFirst(ncs, g) ==
    LET r == doNetClass(ncs.Default, g)
    IN  NetClassLoop_stopAtFirst(ncs.classes, g, 1, [ret |-> r.ret, out |-> r.out])
testNetClasses(ncs, g) ==
    LET r == doNetClass(ncs.Default, g)
    IN  NetClassLoop(ncs.classes, g, 1,
                     [ret |-> IF ~r.ret THEN FALSE ELSE TRUE, out |-> r.out])

\* a net class with every field drawn from Values
NetClassRecords(name, Values) ==
    [name : {name}, Clearance : Values, TrackWidth : Values, ViaDiameter : Values,
     ViaDrill : Values, uViaDiameter : Values, uViaDrill : Values]

\* the board minimums: floor for the six direct fields, annulus for the via annulus
Minimums(floor, annulus) ==
    [m_MinClearance |-> floor, m_TrackMinWidth |-> floor, m_ViasMinSize |-> floor,
     m_MinThroughDrill |-> floor, m_ViasMinAnnulus |-> annulus,
     m_MicroViasMinSize |-> floor, m_MicroViasMinDrill |-> floor]

\* the user classes of a board: a map sorted by name
UniformClass(name, v) ==
    [name |-> name, Clearance |-> v, TrackWidth |-> v, ViaDiameter |-> v,
     ViaDrill |-> v, uViaDiameter |-> v, uViaDrill |-> v]

UserClassLists ==
    {<<>>}
    \cup { <<UniformClass("A", v)>> : v \in {0, MaxVal} }
    \cup { <<UniformClass("A", v), UniformClass("B", w)>> : v \in {0, MaxVal}, w \in {0, MaxVal} }

(* ------------------------------------------------------------------ *)
(* State                                                               *)
(* ------------------------------------------------------------------ *)

VARIABLES
    pc,          \* the position of the running operation ("idle": none is running)
    ignored,     \* the error codes BOARD_DESIGN_SETTINGS::Ignore() answers true for
    g,           \* the board minimums of BOARD_DESIGN_SETTINGS
    netclasses,  \* BOARD_DESIGN_SETTINGS::m_NetClasses: the Default class and the user classes
    markers,     \* the markers on the board, in the order they were committed
    handed,      \* history: every marker passed to addMarkerToPcb, in call order
    ncRet,       \* the value testNetClasses returned to its caller
    modules,     \* BOARD::Modules(): the reference of each footprint, in board order
    netlist,     \* the components of the netlist fetched from the schematic
    m_footprints, \* DRC::m_footprints: the footprint discrepancy items
    runId,       \* history: the number of RunTests invocations started
    opts,        \* the options of DRC: m_doPad2PadTest ... m_testFootprints
    isSingle,    \* Kiface().IsSingle()
    m_pcb,       \* the board: whether its outline is closed, its tracks and vias
    driversRun,  \* history: the drivers called by the current RunTests invocation, in order
    connBuilds,  \* history: the drivers that rebuilt the connectivity in this invocation
    m_unconnected,      \* DRC::m_unconnected: the unconnected items
    m_drcRun,           \* DRC::m_drcRun
    m_footprintsTested, \* DRC::m_footprintsTested
    scan,        \* the locals of DRC::testTracks: seg_it, ii, count, progressDialog
    userAbort,   \* history: the progress dialog reported an abort in this invocation
    rulesFile,   \* the file "drc-rules" of the project
    m_rulesFileLastMod, \* DRC::m_rulesFileLastMod
    m_rules,     \* DRC::m_ruleSelectors and DRC::m_rules
    bds_rules,   \* BOARD_DESIGN_SETTINGS::m_DRCRuleSelectors and m_DRCRules
    zones,       \* the areas of the board, in the order of BOARD::GetArea()
    pads,        \* the pads of the board, in the order of BOARD::GetPads()
    zoneLog,     \* history: the zone pairs TestZoneToZoneOutlines has examined
    padLog,      \* history: the calls of doPadToPadsDrc of the last testPad2Pad
    scanLog,     \* history: the segments examined and the progress reports of testTracks
    ruleLog,     \* history: what each call of loadRules found and did
    loc,         \* the locals of DRC::getLocation: the track, the shape, pt1, pt2
    m_UndoList,  \* PCB_SCREEN::m_UndoList: the commands to undo, the oldest first
    m_RedoList,  \* PCB_SCREEN::m_RedoList: the commands to redo, the oldest first
    boardItems,  \* the items on the board
    freed,       \* history: the items deleted with "delete item"
    urLog        \* history: the last undo/redo operation and the state it found

ncVars == <<g, netclasses, ncRet>>
fpVars == <<modules, netlist, m_footprints>>
runVars == <<runId, opts, isSingle, m_pcb, driversRun, connBuilds, m_unconnected, m_drcRun,
             m_footprintsTested, scan, userAbort>>
ruleVars == <<rulesFile, m_rulesFileLastMod, m_rules, bds_rules>>
boardVars == <<zones, pads>>
locVars == <<loc>>
urVars == <<m_UndoList, m_RedoList, boardItems, freed, urLog>>
logVars == <<zoneLog, padLog, scanLog, ruleLog>>
vars == <<pc, ignored, markers, handed, ncVars, fpVars, runVars, ruleVars, boardVars, locVars,
          urVars, logVars>>

(* ------------------------------------------------------------------ *)
(* Construction                                                        *)
(* ------------------------------------------------------------------ *)

\* the number of tests between two calls to the progress bar (testTracks)
delta == 500

\* a board without tracks, with a closed outline
EmptyBoard == [outlineClosed |-> TRUE, nTracks |-> 0, vias |-> {}, dangling |-> {}]

\* a project without a rule file
NoRulesFile == [exists |-> FALSE, mtime |-> 0, readable |-> FALSE, content |-> "none"]

\* no rule selectors and no rules
NoRules == [selectors |-> <<>>, rules |-> <<>>]

\* DRC::DRC: the state after construction
\* the locals of getLocation when it is not running
NoLocation ==
    [fn |-> "none", ub |-> "wrap", a |-> <<0, 0>>, b |-> <<0, 0>>, shape |-> <<0, 0, 0, 0>>,
     pt1 |-> <<0, 0>>, pt2 |-> <<0, 0>>, iters |-> 0, ret |-> <<0, 0>>]

\* a null pointer to a board item
NULL == 0

\* the history of the undo/redo operations before the first one: the last operation and,
\* for a redo, the one before it, the command type of a call of SaveCopyInUndoList for one item,
\* the number of wrappers a call of SaveCopyInUndoList has put in its command, and the
\* number of items the last operation has deleted
NoUrLog == [op |-> "none", prev |-> "none", type |-> "none", recorded |-> 0, deleted |-> 0]

\* the history of the rule loads before the first load: whether a load was made, whether
\* the last load has parsed the file, the file and the rules it found, the modification
\* time of the file at the last parse before it and now, and the latest modification
\* time an earlier load, or a load up to now, has seen
NoRuleLog ==
    [loaded |-> FALSE, parsed |-> FALSE, file |-> NoRulesFile, rulesBefore |-> NoRules,
     lastParseBefore |-> 0, lastParse |-> 0, maxSeenBefore |-> 0, maxSeen |-> 0]

\* the history of a call of testTracks: the number of markers handed over before it,
\* the number of segments the body of the loop has run for, that number at each call of
\* progressDialog->Update() of the loop, and the segment the loop was at when Update()
\* returned false (0: it has not)
NoScanLog == [base |-> 0, examined |-> 0, reports |-> <<>>, abortAt |-> 0]

InitDRC ==
    /\ opts = [m_doPad2PadTest |-> TRUE, m_doUnconnectedTest |-> TRUE,
               m_doZonesTest |-> FALSE, m_doKeepoutTest |-> TRUE, m_refillZones |-> FALSE,
               m_reportAllTrackErrors |-> FALSE, m_testFootprints |-> FALSE]
    /\ m_drcRun = FALSE
    /\ m_footprintsTested = FALSE
    /\ m_unconnected = <<>>
    /\ m_rulesFileLastMod = 0
    /\ m_rules = NoRules
    /\ bds_rules = NoRules
    /\ runId = 0
    /\ driversRun = <<>>
    /\ connBuilds = <<>>
    /\ scan = [seg |-> 1, ii |-> 0, count |-> 0, progressDialog |-> FALSE, phase |-> "test"]
    /\ userAbort = FALSE
    /\ zoneLog = {}
    /\ padLog = <<>>
    /\ scanLog = NoScanLog
    /\ ruleLog = NoRuleLog
    /\ loc = NoLocation
    /\ m_UndoList = <<>>
    /\ m_RedoList = <<>>
    /\ boardItems = {}
    /\ freed = {}
    /\ urLog = NoUrLog

(* ------------------------------------------------------------------ *)
(* Marker sink                                                         *)
(* ------------------------------------------------------------------ *)

\* BOARD_DESIGN_SETTINGS::Ignore( code )
Ignore(code) == code \in ignored

\* DRC::addMarkerToPcb: the markers of the board after the call
addMarkerToPcb_keepAll(board, aMarker) == Append(board, aMarker)
addMarkerToPcb(board, aMarker) ==
    IF Ignore(aMarker.code)
    THEN board                    \* delete aMarker; return
    ELSE Append(board, aMarker)   \* commit.Add( aMarker ); commit.Push()

\* the markers ms as allocated objects: each gets an identity of its own
Allocate(ms, base) == [i \in 1..Len(ms) |-> [id |-> base + i] @@ ms[i]]

\* addMarkerToPcb called for ms[i], ms[i+1], ... in order
RECURSIVE SinkFrom(_, _, _)
SinkFrom(board, ms, i) ==
    IF i > Len(ms) THEN board ELSE SinkFrom(addMarkerToPcb(board, ms[i]), ms, i + 1)

\* a driver hands the markers ms to addMarkerToPcb
Emit(ms) ==
    LET objs == Allocate(ms, Len(handed))
    IN  /\ markers' = SinkFrom(markers, objs, 1)
        /\ handed' = handed \o objs

(* ------------------------------------------------------------------ *)
(* Zone to zone clearance                                              *)
(* ------------------------------------------------------------------ *)

\* A zone is [layer, net, priority, keepout, clearance, rect]: its outline is the
\* rectangle rect = [x1, y1, x2, y2] with x1 < x2 and y1 < y2, which is also its
\* smoothed outline (BuildSmoothedPoly leaves a rectangle without fillets as it is).

\* the smaller and the larger of two numbers
MinOf(a, b) == IF a <= b THEN a ELSE b
MaxOf(a, b) == IF a >= b THEN a ELSE b

\* ZONE_CONTAINER::IsOnCopperLayer
IsOnCopperLayer(zone) == zone.layer \in {"F.Cu", "B.Cu"}

\* SHAPE_POLY_SET::IterateWithHoles: the vertices of the outline, in order
Vertices(zone) ==
    LET r == zone.rect
    IN  << <<r.x1, r.y1>>, <<r.x2, r.y1>>, <<r.x2, r.y2>>, <<r.x1, r.y2>> >>

\* SHAPE_POLY_SET::IterateSegmentsWithHoles: the segments of the outline, in order
OutlineSegments(zone) ==
    LET v == Vertices(zone)
    IN  [k \in 1..4 |-> [A |-> v[k], B |-> v[(k % 4) + 1]]]

\* SHAPE_POLY_SET::Contains: the point is inside the outline, not on its edge
Contains(zone, pt) ==
    LET r == zone.rect
    IN  r.x1 < pt[1] /\ pt[1] < r.x2 /\ r.y1 < pt[2] /\ pt[2] < r.y2

\* KiROUND( sqrt( n ) ) for n >= 0
RoundedSqrt(n) ==
    IF n = 0 THEN 0
    ELSE CHOOSE r \in 0..n : (2 * r - 1) * (2 * r - 1) <= 4 * n /\ 4 * n < (2 * r + 1) * (2 * r + 1)

\* the gap between the ranges of two segments along one axis, and the coordinate of the
\* first range that is nearest to the second
AxisGap(a1, a2, b1, b2) ==
    LET alo == MinOf(a1, a2)
        ahi == MaxOf(a1, a2)
        blo == MinOf(b1, b2)
        bhi == MaxOf(b1, b2)
    IN  IF blo > ahi THEN [gap |-> blo - ahi, at |-> ahi]
        ELSE IF alo > bhi THEN [gap |-> alo - bhi, at |-> alo]
        ELSE [gap |-> 0, at |-> MaxOf(alo, blo)]

\* GetClearanceBetweenSegments for two segments of width 0 that are parallel to the
\* axes: 0 and a common point when they intersect, otherwise their distance and the
\* point of the second segment nearest to the first
GetClearanceBetweenSegments(testSegment, refSegment) ==
    LET gx == AxisGap(refSegment.A[1], refSegment.B[1], testSegment.A[1], testSegment.B[1])
        gy == AxisGap(refSegment.A[2], refSegment.B[2], testSegment.A[2], testSegment.B[2])
    IN  [d |-> RoundedSqrt(gx.gap * gx.gap + gy.gap * gy.gap), pt |-> <<gx.at, gy.at>>]

\* ZONE_CONTAINER::GetClearance( zoneToTest ): the larger of the clearances of the two
ZoneClearance(zoneRef, zoneToTest) == MaxOf(zoneRef.clearance, zoneToTest.clearance)

\* the clearance of the zone to zone test, but keepout areas keep their clearance
Zone2ZoneClearance_keepoutToo(zoneRef, zoneToTest) == ZoneClearance(zoneRef, zoneToTest)

\* the clearance of the zone to zone test: keepout areas have no clearance, so 1
Zone2ZoneClearance(zoneRef, zoneToTest) ==
    IF zoneRef.keepout THEN 1 ELSE ZoneClearance(zoneRef, zoneToTest)

\* the net test of the pair loop of TestZoneToZoneOutlines
SameNet_positiveOnly(zoneRef, zoneToTest) == zoneRef.net = zoneToTest.net /\ zoneRef.net > 0
SameNet(zoneRef, zoneToTest) == zoneRef.net = zoneToTest.net /\ zoneRef.net >= 0

\* the pair (ia, ia2) passes every "continue" of the pair loop
PairExamined(zs, ia, ia2) ==
    LET zoneRef == zs[ia]
        zoneToTest == zs[ia2]
    IN  /\ ia # ia2                                  \* zoneRef == zoneToTest
        /\ zoneRef.layer = zoneToTest.layer
        /\ ~SameNet(zoneRef, zoneToTest)
        /\ zoneRef.priority = zoneToTest.priority
        /\ zoneRef.keepout = zoneToTest.keepout

\* the markers for the corners of zone a that are inside zone b, from corner k on
RECURSIVE CornerMarkers(_, _, _, _, _)
CornerMarkers(zs, a, b, k, out) ==
    IF k > Len(Vertices(zs[a]))
    THEN out
    ELSE LET pt == Vertices(zs[a])[k]
             marker == [code |-> "DRCE_ZONES_INTERSECT", items |-> <<a, b>>, msg |-> <<>>,
                        pos |-> pt, from |-> "corner"]
         IN  CornerMarkers(zs, a, b, k + 1,
                           IF Contains(zs[b], pt) THEN Append(out, marker) ELSE out)

\* the loops over the segments of both outlines, but the map keeps the separation
\* measured last at a point
RECURSIVE ConflictLoop_keepLast(_, _, _, _, _)
ConflictLoop_keepLast(zs, ia, ia2, k, conflictPoints) ==
    LET refSegs == OutlineSegments(zs[ia])
        testSegs == OutlineSegments(zs[ia2])
        n == Len(testSegs)
    IN  IF k > Len(refSegs) * n
        THEN conflictPoints
        ELSE LET refSegment == refSegs[((k - 1) \div n) + 1]
                 testSegment == testSegs[((k - 1) % n) + 1]
                 r == GetClearanceBetweenSegments(testSegment, refSegment)
                 next == IF r.d < Zone2ZoneClearance(zs[ia], zs[ia2])
                         THEN IF r.pt \in DOMAIN conflictPoints
                              THEN [conflictPoints EXCEPT ![r.pt] = r.d]
                              ELSE conflictPoints @@ (r.pt :> r.d)
                         ELSE conflictPoints
             IN  ConflictLoop_keepLast(zs, ia, ia2, k + 1, next)

\* the loops over the segments of both outlines, from the k-th pair of segments on:
\* the map conflictPoints
RECURSIVE ConflictLoop(_, _, _, _, _)
ConflictLoop(zs, ia, ia2, k, conflictPoints) ==
    LET refSegs == OutlineSegments(zs[ia])
        testSegs == OutlineSegments(zs[ia2])
        n == Len(testSegs)
    IN  IF k > Len(refSegs) * n
        THEN conflictPoints
        ELSE LET refSegment == refSegs[((k - 1) \div n) + 1]
                 testSegment == testSegs[((k - 1) % n) + 1]
                 r == GetClearanceBetweenSegments(testSegment, refSegment)
                 next == IF r.d < Zone2ZoneClearance(zs[ia], zs[ia2])
                         THEN IF r.pt \in DOMAIN conflictPoints
                              THEN [conflictPoints EXCEPT ![r.pt] = MinOf(@, r.d)]
                              ELSE conflictPoints @@ (r.pt :> r.d)
                         ELSE conflictPoints
             IN  ConflictLoop(zs, ia, ia2, k + 1, next)

\* the order of std::map<wxPoint, int>: by x, then by y
PointLess(p, q) == p[1] < q[1] \/ (p[1] = q[1] /\ p[2] < q[2])

\* the code of the item for a conflict with this separation
ConflictCode_negativeOnly(actual) ==
    IF actual < 0 THEN "DRCE_ZONES_INTERSECT" ELSE "DRCE_ZONES_TOO_CLOSE"
ConflictCode(actual) ==
    IF actual <= 0 THEN "DRCE_ZONES_INTERSECT" ELSE "DRCE_ZONES_TOO_CLOSE"

\* the markers for the conflicts of the map, in the order of the map
RECURSIVE ConflictMarkers(_, _, _, _, _)
ConflictMarkers(zs, ia, ia2, conflictPoints, out) ==
    IF DOMAIN conflictPoints = {}
    THEN out
    ELSE LET first == CHOOSE p \in DOMAIN conflictPoints :
                         \A q \in DOMAIN conflictPoints : q = p \/ PointLess(p, q)
             actual == conflictPoints[first]
             code == ConflictCode(actual)
             marker == [code |-> code, items |-> <<ia, ia2>>,
                        msg |-> IF code = "DRCE_ZONES_TOO_CLOSE"
                                THEN <<"clearance", Zone2ZoneClearance(zs[ia], zs[ia2]), actual>>
                                ELSE <<>>,
                        pos |-> first, from |-> "conflict"]
             rest == [p \in DOMAIN conflictPoints \ {first} |-> conflictPoints[p]]
         IN  ConflictMarkers(zs, ia, ia2, rest, Append(out, marker))

\* the body of the pair loop for a pair that is examined: the markers it hands over
ExaminePair(zs, ia, ia2) ==
    LET c1 == CornerMarkers(zs, ia, ia2, 1, <<>>)
        c2 == CornerMarkers(zs, ia2, ia, 1, c1)
    IN  ConflictMarkers(zs, ia, ia2, ConflictLoop(zs, ia, ia2, 1, <<>>), c2)

\* the loops of TestZoneToZoneOutlines from the pair (ia, ia2) on: the markers handed
\* over and the pairs examined
RECURSIVE ZonePairLoop(_, _, _, _)
ZonePairLoop(zs, ia, ia2, st) ==
    IF ia > Len(zs)
    THEN st
    ELSE IF ~IsOnCopperLayer(zs[ia]) \/ ia2 > Len(zs)
    THEN ZonePairLoop(zs, ia + 1, ia + 2, st)
    ELSE ZonePairLoop(zs, ia, ia2 + 1,
             IF PairExamined(zs, ia, ia2)
             THEN [out |-> st.out \o ExaminePair(zs, ia, ia2),
                   examined |-> st.examined \cup {<<ia, ia2>>}]
             ELSE st)

\* DRC::TestZoneToZoneOutlines: the markers handed over, the pairs examined, nerrors
TestZoneToZoneOutlines(zs) ==
    LET r == ZonePairLoop(zs, 1, 2, [out |-> <<>>, examined |-> {}])
    IN  [out |-> r.out, examined |-> r.examined, nerrors |-> Len(r.out)]

\* A pad is [x, y, radius, clearance, net, parent, name, layers, drill, drillShape,
\* orient]: its position, its bounding radius, its clearance, its net code, its
\* footprint, its pad name, its layer set, the size of its hole (0: none), the shape of
\* the hole and its orientation. PadAt gives a round pad on the front copper layer.
PadAt(x, net) ==
    [x |-> x, y |-> 0, radius |-> 1, clearance |-> 0, net |-> net, parent |-> 1,
     name |-> "1", layers |-> {"F.Cu"}, drill |-> 0, drillShape |-> "circle", orient |-> 0]

\* CONNECTIVITY_DATA::GetPadCount( netcode ): the number of pads of the board in the net
GetPadCount(netcode) == Cardinality({ i \in DOMAIN pads : pads[i].net = netcode })

\* the loop of testZones over the areas from ii on: the markers for zones without net
RECURSIVE EmptyNetLoop(_, _, _)
EmptyNetLoop(zs, ii, out) ==
    IF ii > Len(zs)
    THEN out
    ELSE LET zone == zs[ii]
             netcode == zone.net
             pads_in_net == IF netcode > 0 THEN GetPadCount(netcode) ELSE 1
             marker == [code |-> "DRCE_ZONE_HAS_EMPTY_NET", items |-> <<ii>>, msg |-> <<>>,
                        pos |-> <<zone.rect.x1, zone.rect.y1>>, from |-> "emptynet"]
         IN  EmptyNetLoop(zs, ii + 1,
                 IF IsOnCopperLayer(zone) /\ (netcode < 0 \/ pads_in_net = 0)
                 THEN Append(out, marker) ELSE out)

\* the condition of testZones for its test of the nets of the zones
DoZoneNetTest_always == TRUE
DoZoneNetTest == ~Ignore("DRCE_ZONE_HAS_EMPTY_NET")

\* DRC::testZones: the markers handed over and the pairs of zones examined
testZones(zs) ==
    LET e == IF DoZoneNetTest THEN EmptyNetLoop(zs, 1, <<>>) ELSE <<>>
        z == TestZoneToZoneOutlines(zs)
    IN  [out |-> e \o z.out, examined |-> z.examined]

(* ------------------------------------------------------------------ *)
(* Pad to pad clearance                                                *)
(* ------------------------------------------------------------------ *)

\* LSET::AllCuMask
all_cu == {"F.Cu", "B.Cu"}

\* the order of GetSortedPadListByXthenYCoord on the pads i and j of the board: by x,
\* then by y, then as on the board
PadBefore(i, j) ==
    \/ pads[i].x < pads[j].x
    \/ pads[i].x = pads[j].x /\ pads[i].y < pads[j].y
    \/ pads[i].x = pads[j].x /\ pads[i].y = pads[j].y /\ i < j

\* BOARD::GetSortedPadListByXthenYCoord: the pads of the board, each by its index
GetSortedPadListByXthenYCoord ==
    LET n == Len(pads)
    IN  [k \in 1..n |->
            CHOOSE i \in 1..n : Cardinality({ j \in 1..n : PadBefore(j, i) }) = k - 1]

\* the dummy pad of doPadToPadsDrc for the hole of a pad: round, of the size of the hole
HoleOf(pad) == [x |-> pad.x, y |-> pad.y, radius |-> CDiv(pad.drill, 2)]

\* checkClearancePadToPad for round pads: whether the clearance is kept, and the
\* distance between the two shapes
checkClearancePadToPad(aRefPad, aPad, minClearance) ==
    LET dx == aRefPad.x - aPad.x
        dy == aRefPad.y - aPad.y
        actual == RoundedSqrt(dx * dx + dy * dy) - aRefPad.radius - aPad.radius
    IN  [ok |-> actual >= minClearance, actual |-> actual]

\* the pads are on different copper layers: the branch of the hole tests
OnDifferentCopperLayers(aRefPad, pad) ==
    LET layerMask == aRefPad.layers \cap all_cu
    IN  /\ pad.layers \cap layerMask = {}
        /\ pad.layers \cap all_cu # {}
        /\ aRefPad.layers \cap all_cu # {}

\* the holes of the two pads are the same hole: accepted
SameHole(aRefPad, pad) ==
    /\ pad.x = aRefPad.x /\ pad.y = aRefPad.y
    /\ pad.drill = aRefPad.drill
    /\ pad.drillShape = aRefPad.drillShape
    /\ (aRefPad.drillShape = "circle" \/ pad.orient = aRefPad.orient)

\* the body of the loop of doPadToPadsDrc for the reference pad ref and the candidate
\* cand (indices of pads of the board): the marker it hands over, if any
PadPairTest(ref, cand) ==
    LET aRefPad == pads[ref]
        pad == pads[cand]
        layerMask == aRefPad.layers \cap all_cu
        holeOfPad == checkClearancePadToPad(aRefPad, HoleOf(pad), aRefPad.clearance)
        holeOfRef == checkClearancePadToPad(pad, HoleOf(aRefPad), pad.clearance)
        padToPad == checkClearancePadToPad(aRefPad, pad, aRefPad.clearance)
        Marker(code, items, clearance, actual, at) ==
            <<[code |-> code, items |-> items, msg |-> <<"clearance", clearance, actual>>,
               pos |-> <<pads[at].x, pads[at].y>>, from |-> "pad2pad"]>>
    IN  IF OnDifferentCopperLayers(aRefPad, pad)
        THEN IF SameHole(aRefPad, pad)
             THEN <<>>
             ELSE IF pad.drill # 0 /\ ~holeOfPad.ok
             THEN Marker("DRCE_HOLE_NEAR_PAD", <<cand, ref>>, aRefPad.clearance,
                         holeOfPad.actual, cand)
             ELSE IF aRefPad.drill # 0 /\ ~holeOfRef.ok
             THEN Marker("DRCE_HOLE_NEAR_PAD", <<ref, cand>>, pad.clearance,
                         holeOfRef.actual, ref)
             ELSE <<>>
        ELSE IF pad.net # 0 /\ aRefPad.net = pad.net
        THEN <<>>
        ELSE IF pad.parent = aRefPad.parent /\ pad.name = aRefPad.name
        THEN <<>>
        ELSE IF \/ (pad.layers \cap layerMask = {} /\ pad.drill = 0)
                \/ (aRefPad.layers \cap layerMask = {} /\ aRefPad.drill = 0)
        THEN <<>>
        ELSE IF ~padToPad.ok
        THEN Marker("DRCE_PAD_NEAR_PAD", <<ref, cand>>, aRefPad.clearance,
                    padToPad.actual, ref)
        ELSE <<>>

\* the loop of doPadToPadsDrc from position k of the sorted list on: what it returns,
\* the marker it hands over and the candidates it has tested
RECURSIVE PadLoop_goOn(_, _, _, _, _)
PadLoop_goOn(sortedPads, ref, k, x_limit, st) ==
    IF k > Len(sortedPads)
    THEN st
    ELSE IF sortedPads[k] = ref
    THEN PadLoop_goOn(sortedPads, ref, k + 1, x_limit, st)
    ELSE IF pads[sortedPads[k]].x > x_limit
    THEN st
    ELSE LET m == PadPairTest(ref, sortedPads[k])
         IN  PadLoop_goOn(sortedPads, ref, k + 1, x_limit,
                          [ret |-> st.ret /\ m = <<>>, out |-> st.out \o m,
                           tested |-> Append(st.tested, sortedPads[k])])

RECURSIVE PadLoop(_, _, _, _, _)
PadLoop(sortedPads, ref, k, x_limit, st) ==
    IF k > Len(sortedPads)
    THEN st                                                    \* return true
    ELSE IF sortedPads[k] = ref                                \* pad == aRefPad
    THEN PadLoop(sortedPads, ref, k + 1, x_limit, st)
    ELSE IF pads[sortedPads[k]].x > x_limit
    THEN st                                                    \* break; return true
    ELSE LET m == PadPairTest(ref, sortedPads[k])
             tested == Append(st.tested, sortedPads[k])
         IN  IF m # <<>>
             THEN [ret |-> FALSE, out |-> m, tested |-> tested]  \* return false
             ELSE PadLoop(sortedPads, ref, k + 1, x_limit, [st EXCEPT !.tested = tested])

\* DRC::doPadToPadsDrc for the pad at position start of the sorted list
doPadToPadsDrc(sortedPads, start, x_limit) ==
    LET r == PadLoop(sortedPads, sortedPads[start], start, x_limit,
                     [ret |-> TRUE, out |-> <<>>, tested |-> <<>>])
    IN  [ref |-> sortedPads[start], start |-> start, x_limit |-> x_limit,
         ret |-> r.ret, out |-> r.out, tested |-> r.tested]

\* the largest bounding radius of the pads
max_size ==
    IF pads = <<>> THEN 0
    ELSE CHOOSE m \in { pads[i].radius : i \in DOMAIN pads } :
            \A i \in DOMAIN pads : pads[i].radius <= m

\* the loop of testPad2Pad over the sorted list, from position k on: the calls made
RECURSIVE Pad2PadLoop(_, _, _)
Pad2PadLoop(sortedPads, k, calls) ==
    IF k > Len(sortedPads)
    THEN calls
    ELSE LET pad == pads[sortedPads[k]]
             x_limit == pad.clearance + pad.radius + pad.x
         IN  Pad2PadLoop(sortedPads, k + 1,
                 Append(calls, doPadToPadsDrc(sortedPads, k, max_size + x_limit)))

\* the markers of the calls from call k on, in order
RECURSIVE MarkersOfCalls(_, _)
MarkersOfCalls(calls, k) ==
    IF k > Len(calls) THEN <<>> ELSE calls[k].out \o MarkersOfCalls(calls, k + 1)

\* DRC::testPad2Pad: the calls of doPadToPadsDrc it makes and the markers handed over
testPad2Pad ==
    LET calls == Pad2PadLoop(GetSortedPadListByXthenYCoord, 1, <<>>)
    IN  [calls |-> calls, out |-> MarkersOfCalls(calls, 1)]

(* ------------------------------------------------------------------ *)
(* Footprint reconciliation                                            *)
(* ------------------------------------------------------------------ *)

\* references are strings, held as sequences of character codes
RefR == <<82>>          \* "R"
Refr == <<114>>         \* "r"
RefU == <<85>>          \* "U"
Refs == {RefR, Refr, RefU}

\* wxTolower on a character code
ToLower(c) == IF c >= 65 /\ c <= 90 THEN c + 32 ELSE c

\* wxString::Lower: every character mapped by wxTolower
MakeLower(s) == [k \in DOMAIN s |-> ToLower(s[k])]

\* the comparison of two strings character by character from position i on: negative,
\* zero or positive
RECURSIVE CmpFrom(_, _, _)
CmpFrom(a, b, i) ==
    IF i > Len(a) /\ i > Len(b) THEN 0
    ELSE IF i > Len(a) THEN -1
    ELSE IF i > Len(b) THEN 1
    ELSE IF a[i] < b[i] THEN -1
    ELSE IF a[i] > b[i] THEN 1
    ELSE CmpFrom(a, b, i + 1)

\* wxString::CmpNoCase: the comparison of the two strings with their case folded
CmpNoCase_caseSensitive(a, b) == CmpFrom(a, b, 1)
CmpNoCase(a, b) == CmpFrom(MakeLower(a), MakeLower(b), 1)

\* the ordering of the set mods of TestFootprints
comp_caseSensitive(x, y) == CmpNoCase_caseSensitive(x.ref, y.ref) < 0
comp(x, y) == CmpNoCase(x.ref, y.ref) < 0

\* the footprint at position i of the board: its identity and its reference
Module(i) == [id |-> i, ref |-> modules[i]]

\* std::set::insert on a set held in its iteration order: the set afterwards, the
\* element equivalent to mod that it holds, and whether mod was inserted
SetInsert(mods, mod) ==
    LET same == { i \in DOMAIN mods : ~comp(mods[i], mod) /\ ~comp(mod, mods[i]) }
        k == Cardinality({ i \in DOMAIN mods : comp(mods[i], mod) })
    IN  IF same # {}
        THEN [set |-> mods, first |-> mods[CHOOSE i \in same : TRUE], second |-> FALSE]
        ELSE [set |-> SubSeq(mods, 1, k) \o <<mod>> \o SubSeq(mods, k + 1, Len(mods)),
              first |-> mod, second |-> TRUE]

\* BOARD::FindModuleByReference: the first footprint with this reference, 0 for NULL
FindModuleByReference(aReference) ==
    IF \E i \in DOMAIN modules : modules[i] = aReference
    THEN CHOOSE i \in DOMAIN modules :
            /\ modules[i] = aReference
            /\ \A j \in DOMAIN modules : modules[j] = aReference => i <= j
    ELSE 0

\* NETLIST::GetComponentByReference: the first component with this reference, 0 for NULL
GetComponentByReference(aNetlist, aReference) ==
    IF \E i \in DOMAIN aNetlist : aNetlist[i].ref = aReference
    THEN CHOOSE i \in DOMAIN aNetlist :
            /\ aNetlist[i].ref = aReference
            /\ \A j \in DOMAIN aNetlist : aNetlist[j].ref = aReference => i <= j
    ELSE 0

\* the search for duplicate footprints, from footprint i on: the set mods and the list
RECURSIVE DuplicateLoop(_, _)
DuplicateLoop(i, st) ==
    IF i > Len(modules)
    THEN st
    ELSE LET ins == SetInsert(st.mods, Module(i))
             item == [code |-> "DRCE_DUPLICATE_FOOTPRINT",
                      items |-> <<i, ins.first.id>>, msg |-> <<>>]
         IN  DuplicateLoop(i + 1,
                 [mods |-> ins.set,
                  list |-> IF ~ins.second THEN Append(st.list, item) ELSE st.list])

\* the search for components of the netlist that have no footprint, from component ii on
RECURSIVE MissingLoop(_, _, _)
MissingLoop(aNetlist, ii, list) ==
    IF ii > Len(aNetlist)
    THEN list
    ELSE LET component == aNetlist[ii]
             module == FindModuleByReference(component.ref)
             item == [code |-> "DRCE_MISSING_FOOTPRINT", items |-> <<>>,
                      msg |-> <<component.ref, component.value>>]
         IN  MissingLoop(aNetlist, ii + 1,
                         IF module = 0 THEN Append(list, item) ELSE list)

\* the search for footprints that have no component, over the set mods from position k on
RECURSIVE ExtraLoop(_, _, _, _)
ExtraLoop(aNetlist, mods, k, list) ==
    IF k > Len(mods)
    THEN list
    ELSE LET module == mods[k]
             component == GetComponentByReference(aNetlist, module.ref)
             item == [code |-> "DRCE_EXTRA_FOOTPRINT", items |-> <<module.id>>,
                      msg |-> <<>>]
         IN  ExtraLoop(aNetlist, mods, k + 1,
                       IF component = 0 THEN Append(list, item) ELSE list)

\* DRC::TestFootprints: aDRCList after the call
TestFootprints(aNetlist, aDRCList) ==
    LET s0 == [mods |-> <<>>, list |-> aDRCList]
        s1 == IF ~Ignore("DRCE_DUPLICATE_FOOTPRINT") THEN DuplicateLoop(1, s0) ELSE s0
        l2 == IF ~Ignore("DRCE_MISSING_FOOTPRINT")
              THEN MissingLoop(aNetlist, 1, s1.list) ELSE s1.list
        l3 == IF ~Ignore("DRCE_EXTRA_FOOTPRINT")
              THEN ExtraLoop(aNetlist, s1.mods, 1, l2) ELSE l2
    IN  l3

(* ------------------------------------------------------------------ *)
(* Rule file                                                           *)
(* ------------------------------------------------------------------ *)

\* DRC_RULES_PARSER::Parse on the content of a rule file: whether it returns or throws
\* PARSE_ERROR, and what it has put in the selectors and the rules by then
Parse(content) ==
    IF content = "good"
    THEN [ok |-> TRUE, selectors |-> <<"selector1">>, rules |-> <<"rule1">>]
    ELSE IF content = "good2"
    THEN [ok |-> TRUE, selectors |-> <<"selector2">>, rules |-> <<"rule2">>]
    ELSE [ok |-> FALSE, selectors |-> <<"selector1">>, rules |-> <<>>]

\* DRC::loadRules, but what the parser has put in the selectors and the rules before it
\* throws PARSE_ERROR is kept
loadRules_keepPartial(file, lastModBefore, rulesBefore) ==
    IF file.exists /\ file.mtime > lastModBefore
    THEN LET parsed == Parse(file.content)
         IN  [lastMod |-> file.mtime,
              parsed |-> file.readable,
              rules |-> IF file.readable
                        THEN [selectors |-> parsed.selectors, rules |-> parsed.rules]
                        ELSE NoRules]
    ELSE [lastMod |-> lastModBefore, parsed |-> FALSE, rules |-> rulesBefore]

\* DRC::loadRules, but a file as old as the recorded time is loaded again
loadRules_notStrict(file, lastModBefore, rulesBefore) ==
    IF file.exists /\ file.mtime >= lastModBefore
    THEN LET parsed == Parse(file.content)
         IN  [lastMod |-> file.mtime,
              parsed |-> file.readable,
              rules |-> IF file.readable /\ parsed.ok
                        THEN [selectors |-> parsed.selectors, rules |-> parsed.rules]
                        ELSE NoRules]
    ELSE [lastMod |-> lastModBefore, parsed |-> FALSE, rules |-> rulesBefore]

\* DRC::loadRules: m_rulesFileLastMod and the selectors and rules of the checker
\* afterwards, and whether the parser was run on the file
loadRules(file, lastModBefore, rulesBefore) ==
    IF file.exists /\ file.mtime > lastModBefore
    THEN LET parsed == Parse(file.content)
         IN  [lastMod |-> file.mtime,
              parsed |-> file.readable,                      \* if( fp )
              rules |-> IF file.readable /\ parsed.ok
                        THEN [selectors |-> parsed.selectors, rules |-> parsed.rules]
                        ELSE NoRules]
    ELSE [lastMod |-> lastModBefore, parsed |-> FALSE, rules |-> rulesBefore]

\* the history after a load with the result r
Loaded(r) ==
    [loaded |-> TRUE, parsed |-> r.parsed, file |-> rulesFile, rulesBefore |-> m_rules,
     lastParseBefore |-> ruleLog.lastParse,
     lastParse |-> IF r.parsed THEN rulesFile.mtime ELSE ruleLog.lastParse,
     maxSeenBefore |-> ruleLog.maxSeen,
     maxSeen |-> IF rulesFile.exists /\ rulesFile.mtime > ruleLog.maxSeen
                 THEN rulesFile.mtime ELSE ruleLog.maxSeen]

(* ------------------------------------------------------------------ *)
(* DRC::RunTests                                                       *)
(* ------------------------------------------------------------------ *)

\* a driver was called: it is added to the history of this invocation
Called(driver) == driversRun' = Append(driversRun, driver)
CalledIf(cond, driver) == driversRun' = IF cond THEN Append(driversRun, driver) ELSE driversRun

\* the items of list as created by invocation run
Stamp(list, run) ==
    [k \in DOMAIN list |->
        [code |-> list[k].code, items |-> list[k].items, msg |-> list[k].msg, run |-> run]]

\* DRC::testOutline: the markers it hands over
testOutline ==
    IF ~m_pcb.outlineClosed
    THEN <<[code |-> "DRCE_INVALID_OUTLINE", items |-> <<"board">>,
            msg |-> <<"not a closed shape">>]>>
    ELSE <<>>

\* the position RunTests goes to with the result of testNetClasses
AfterNetClasses_noAbort(ret) == "pad2pad"
AfterNetClasses(ret) == IF ~ret THEN "idle" ELSE "pad2pad"

\* the condition of RunTests for testUnconnected
DoUnconnectedTest_optionOnly == opts.m_doUnconnectedTest
DoUnconnectedTest ==
    opts.m_doUnconnectedTest /\ ~Ignore("DRCE_UNCONNECTED_ITEMS")

\* the condition of RunTests for doCourtyardsDrc
DoCourtyards ==
    \/ ~Ignore("DRCE_OVERLAPPING_FOOTPRINTS")
    \/ ~Ignore("DRCE_MISSING_COURTYARD")
    \/ ~Ignore("DRCE_MALFORMED_COURTYARD")
    \/ ~Ignore("DRCE_PTH_IN_COURTYARD")
    \/ ~Ignore("DRCE_NPTH_IN_COURTYARD")

\* the condition of RunTests for testDisabledLayers
DoDisabledLayers_always == TRUE
DoDisabledLayers == ~Ignore("DRCE_DISABLED_LAYER_ITEM")

\* the condition of RunTests for testTextVars
DoTextVars == ~Ignore("DRCE_UNRESOLVED_VARIABLE")

\* the condition of RunTests for TestFootprints
DoTestFootprints == opts.m_testFootprints /\ ~isSingle

\* the options the caller has set and the net classes of the board when RunTests is called
OptionChoices ==
    { [m_doPad2PadTest |-> TRUE, m_doUnconnectedTest |-> TRUE, m_doZonesTest |-> FALSE,
       m_doKeepoutTest |-> TRUE, m_refillZones |-> FALSE, m_reportAllTrackErrors |-> FALSE,
       m_testFootprints |-> FALSE],
      [m_doPad2PadTest |-> TRUE, m_doUnconnectedTest |-> TRUE, m_doZonesTest |-> TRUE,
       m_doKeepoutTest |-> TRUE, m_refillZones |-> TRUE, m_reportAllTrackErrors |-> TRUE,
       m_testFootprints |-> TRUE],
      [m_doPad2PadTest |-> FALSE, m_doUnconnectedTest |-> FALSE, m_doZonesTest |-> FALSE,
       m_doKeepoutTest |-> FALSE, m_refillZones |-> FALSE, m_reportAllTrackErrors |-> FALSE,
       m_testFootprints |-> FALSE] }

NetClassChoices ==
    { [Default |-> UniformClass("Default", MaxVal), classes |-> <<>>],
      [Default |-> UniformClass("Default", MaxVal), classes |-> <<UniformClass("A", 0)>>] }

\* RunTests up to the net class check: loadRules, testOutline
RunTests_Begin ==
    /\ pc = "idle"
    /\ runId < MaxRuns
    /\ runId' = runId + 1
    /\ opts' \in OptionChoices
    /\ netclasses' \in NetClassChoices
    /\ LET r == loadRules(rulesFile, m_rulesFileLastMod, m_rules)
       IN  /\ m_rulesFileLastMod' = r.lastMod
           /\ m_rules' = r.rules
           /\ bds_rules' = r.rules
           /\ ruleLog' = Loaded(r)
    /\ Emit(testOutline)
    /\ driversRun' = <<"loadRules", "testOutline">>
    /\ connBuilds' = <<>>
    /\ userAbort' = FALSE
    /\ ncRet' = TRUE
    /\ pc' = "netclasses"
    /\ UNCHANGED <<ignored, g, fpVars, isSingle, m_pcb, m_unconnected, m_drcRun,
                   m_footprintsTested, scan, rulesFile,
                   boardVars, locVars, urVars, zoneLog, padLog, scanLog>>

\* what a step of RunTests that only calls a driver leaves alone
OnlyDriver ==
    UNCHANGED <<ignored, markers, handed, ncVars, fpVars, runId, opts, isSingle, m_pcb,
                connBuilds, m_unconnected, m_drcRun, m_footprintsTested, scan, userAbort,
                ruleVars,
                   boardVars, locVars, urVars, logVars>>

\* as RunTests_NetClasses, but the footprint items are cleared before the early return
RunTests_NetClasses_clearsFirst ==
    /\ pc = "netclasses"
    /\ LET r == testNetClasses(netclasses, g)
       IN  /\ Emit(r.out)
           /\ ncRet' = r.ret
           /\ pc' = AfterNetClasses(r.ret)
           /\ IF r.ret
              THEN UNCHANGED <<m_footprints, m_footprintsTested>>
              ELSE m_footprints' = <<>> /\ m_footprintsTested' = FALSE
    /\ Called("testNetClasses")
    /\ UNCHANGED <<ignored, g, netclasses, modules, netlist, runId, opts, isSingle, m_pcb,
                   connBuilds, m_unconnected, m_drcRun, scan, userAbort, ruleVars,
                   boardVars, locVars, urVars, logVars>>

\* if( !testNetClasses() ) { updatePointers(); return; }
RunTests_NetClasses ==
    /\ pc = "netclasses"
    /\ LET r == testNetClasses(netclasses, g)
       IN  /\ Emit(r.out)
           /\ ncRet' = r.ret
           /\ pc' = AfterNetClasses(r.ret)
    /\ Called("testNetClasses")
    /\ UNCHANGED <<ignored, g, netclasses, fpVars, runId, opts, isSingle, m_pcb, connBuilds,
                   m_unconnected, m_drcRun, m_footprintsTested, scan, userAbort, ruleVars,
                   boardVars, locVars, urVars, logVars>>

\* if( m_doPad2PadTest ) testPad2Pad();
RunTests_Pad2Pad ==
    /\ pc = "pad2pad"
    /\ CalledIf(opts.m_doPad2PadTest, "testPad2Pad")
    /\ IF opts.m_doPad2PadTest
       THEN Emit(testPad2Pad.out) /\ padLog' = testPad2Pad.calls
       ELSE UNCHANGED <<markers, handed, padLog>>
    /\ pc' = "holes"
    /\ UNCHANGED <<ignored, ncVars, fpVars, runId, opts, isSingle, m_pcb, connBuilds,
                   m_unconnected, m_drcRun, m_footprintsTested, scan, userAbort, ruleVars,
                   boardVars, locVars, urVars, zoneLog, scanLog, ruleLog>>

\* testDrilledHoles();
RunTests_DrilledHoles ==
    /\ pc = "holes"
    /\ Called("testDrilledHoles")
    /\ pc' = "zonefill"
    /\ OnlyDriver

\* FillAllZones( caller ) or CheckAllZones( caller )
RunTests_ZoneFill ==
    /\ pc = "zonefill"
    /\ Called(IF opts.m_refillZones THEN "FillAllZones" ELSE "CheckAllZones")
    /\ pc' = "tracks"
    /\ OnlyDriver

\* the body of the loop of testTracks for segment seg: doTrackDrc, then the test for a
\* dangling end; the markers the dangling test hands over
TrackBody(seg) ==
    LET code == IF seg \in m_pcb.vias THEN "DRCE_DANGLING_VIA" ELSE "DRCE_DANGLING_TRACK"
    IN  IF ~Ignore(code) /\ seg \in m_pcb.dangling
        THEN <<[code |-> code, items |-> <<seg>>, msg |-> <<>>]>>
        ELSE <<>>

\* one iteration of the loop of testTracks on the loop state st: the loop has ended when
\* seg_it is past the last track; "if( ii++ > delta )" makes the progress bar due and
\* the loop waits for it (stop = "report") with ii = 0 and count incremented; otherwise,
\* and after the progress bar was served (phase = "body"), the body runs for the segment
ScanStep(st) ==
    IF st.stop # "run"
    THEN st
    ELSE IF st.seg > m_pcb.nTracks
    THEN [st EXCEPT !.stop = "end"]
    ELSE IF st.phase = "test" /\ st.ii > delta
    THEN [st EXCEPT !.stop = "report", !.ii = 0, !.count = @ + 1]
    ELSE [st EXCEPT !.seg = @ + 1,
                    !.ii = IF st.phase = "test" THEN @ + 1 ELSE @,
                    !.out = @ \o TrackBody(st.seg),
                    !.phase = "test"]

\* n iterations of the loop, one after the other, up to the one that stops it
RECURSIVE Iterations(_, _)
Iterations(st, n) ==
    IF n = 0 THEN st
    ELSE IF n = 1 THEN ScanStep(st)
    ELSE LET half == Iterations(st, n \div 2)
         IN  IF half.stop # "run" THEN half ELSE Iterations(half, n - (n \div 2))

\* the loop of testTracks from segment seg on, run until the list ends or the progress
\* bar is due: where it stops and the markers handed over
ScanRun(seg, ii, count, out, phase) ==
    Iterations([stop |-> "run", seg |-> seg, ii |-> ii, count |-> count, out |-> out,
                phase |-> phase],
               m_pcb.nTracks + 2 - seg)

\* the locals of testTracks when it is not running
NoScan == [seg |-> 1, ii |-> 0, count |-> 0, progressDialog |-> FALSE, phase |-> "test"]

\* what a step of testTracks leaves alone
OnlyScan ==
    UNCHANGED <<ignored, ncVars, fpVars, runId, opts, isSingle, m_pcb, driversRun, connBuilds,
                m_unconnected, m_drcRun, m_footprintsTested, ruleVars,
                boardVars, locVars, urVars, zoneLog, padLog, ruleLog>>

\* the history after the loop has stopped at r with the progress bar due
Reported(r) ==
    [scanLog EXCEPT !.examined = r.seg - 1,
                    !.reports = IF scan.progressDialog THEN Append(@, r.seg - 1) ELSE @]

\* testTracks up to its loop: the progress dialog, the connectivity
testTracks_Begin ==
    /\ pc = "tracks"
    /\ Called("testTracks")
    /\ scan' = [seg |-> 1, ii |-> 0, count |-> 0,
                progressDialog |-> (m_pcb.nTracks \div delta) > 3, phase |-> "test"]
    /\ connBuilds' = IF ~Ignore("DRCE_DANGLING_TRACK") \/ ~Ignore("DRCE_DANGLING_VIA")
                     THEN Append(connBuilds, "testTracks") ELSE connBuilds
    /\ scanLog' = [NoScanLog EXCEPT !.base = Len(handed)]
    /\ pc' = "trackscan"
    /\ UNCHANGED <<ignored, markers, handed, ncVars, fpVars, runId, opts, isSingle, m_pcb,
                   m_unconnected, m_drcRun, m_footprintsTested, userAbort, ruleVars,
                   boardVars, locVars, urVars, zoneLog, padLog, ruleLog>>

\* the loop of testTracks runs to the end of the track list; testTracks returns
testTracks_ScanToEnd ==
    /\ pc = "trackscan"
    /\ LET r == ScanRun(scan.seg, scan.ii, scan.count, <<>>, scan.phase)
       IN  /\ r.stop = "end"
           /\ Emit(r.out)
           /\ scanLog' = [scanLog EXCEPT !.examined = r.seg - 1]
    /\ scan' = NoScan
    /\ pc' = "zones"
    /\ UNCHANGED userAbort
    /\ OnlyScan

\* the loop of testTracks runs until the progress bar is due; there is no progress
\* dialog, or progressDialog->Update() returns true: the loop goes on
testTracks_Progress ==
    /\ pc = "trackscan"
    /\ LET r == ScanRun(scan.seg, scan.ii, scan.count, <<>>, scan.phase)
       IN  /\ r.stop = "report"
           /\ Emit(r.out)
           /\ scan' = [scan EXCEPT !.seg = r.seg, !.ii = r.ii, !.count = r.count,
                                   !.phase = "body"]
           /\ scanLog' = Reported(r)
    /\ UNCHANGED <<pc, userAbort>>
    /\ OnlyScan

\* the loop of testTracks runs until the progress bar is due and
\* progressDialog->Update() returns false: the body runs for the segment, then break
testTracks_Abort_breakAfterBody ==
    /\ pc = "trackscan"
    /\ scan.progressDialog
    /\ LET r == ScanRun(scan.seg, scan.ii, scan.count, <<>>, scan.phase)
       IN  /\ r.stop = "report"
           /\ Emit(r.out \o TrackBody(r.seg))
           /\ scanLog' = [Reported(r) EXCEPT !.abortAt = r.seg, !.examined = r.seg]
    /\ userAbort' = TRUE
    /\ scan' = NoScan
    /\ pc' = "zones"
    /\ OnlyScan

\* the loop of testTracks runs until the progress bar is due and
\* progressDialog->Update() returns false: break, and testTracks returns
testTracks_Abort ==
    /\ pc = "trackscan"
    /\ scan.progressDialog
    /\ LET r == ScanRun(scan.seg, scan.ii, scan.count, <<>>, scan.phase)
       IN  /\ r.stop = "report"
           /\ Emit(r.out)
           /\ scanLog' = [Reported(r) EXCEPT !.abortAt = r.seg]
    /\ userAbort' = TRUE
    /\ scan' = NoScan
    /\ pc' = "zones"
    /\ OnlyScan

\* testZones();
RunTests_Zones ==
    /\ pc = "zones"
    /\ Called("testZones")
    /\ LET r == testZones(zones)
       IN  /\ Emit(r.out)
           /\ zoneLog' = r.examined
    /\ pc' = "unconnected"
    /\ UNCHANGED <<ignored, ncVars, fpVars, runId, opts, isSingle, m_pcb, connBuilds,
                   m_unconnected, m_drcRun, m_footprintsTested, scan, userAbort, ruleVars,
                   boardVars, locVars, urVars, padLog, scanLog, ruleLog>>

\* the unconnected edges CONNECTIVITY_DATA::GetUnconnectedEdges may answer
EdgeChoices == { <<>>, <<[source |-> "pad1", target |-> "pad2"]>> }

\* DRC::testUnconnected: m_unconnected afterwards, for the edges the connectivity answers
testUnconnected(edges) ==
    [k \in DOMAIN edges |->
        [code |-> "DRCE_UNCONNECTED_ITEMS", items |-> <<edges[k].source, edges[k].target>>,
         msg |-> <<>>]]

\* if( m_doUnconnectedTest && !Ignore( DRCE_UNCONNECTED_ITEMS ) ) testUnconnected();
RunTests_Unconnected ==
    /\ pc = "unconnected"
    /\ IF DoUnconnectedTest
       THEN /\ \E edges \in EdgeChoices :
                 m_unconnected' = Stamp(testUnconnected(edges), runId)
            /\ connBuilds' = Append(connBuilds, "testUnconnected")
            /\ Called("testUnconnected")
       ELSE UNCHANGED <<m_unconnected, connBuilds, driversRun>>
    /\ pc' = "keepout"
    /\ UNCHANGED <<ignored, markers, handed, ncVars, fpVars, runId, opts, isSingle, m_pcb,
                   m_drcRun, m_footprintsTested, scan, userAbort, ruleVars,
                   boardVars, locVars, urVars, logVars>>

\* if( m_doKeepoutTest ) testKeepoutAreas();
RunTests_Keepout ==
    /\ pc = "keepout"
    /\ CalledIf(opts.m_doKeepoutTest, "testKeepoutAreas")
    /\ pc' = "text"
    /\ OnlyDriver

\* testCopperTextAndGraphics();
RunTests_CopperText ==
    /\ pc = "text"
    /\ Called("testCopperTextAndGraphics")
    /\ pc' = "courtyards"
    /\ OnlyDriver

\* if( one of the courtyard codes is not ignored ) doCourtyardsDrc();
RunTests_Courtyards ==
    /\ pc = "courtyards"
    /\ CalledIf(DoCourtyards, "doCourtyardsDrc")
    /\ pc' = "footprints"
    /\ OnlyDriver

\* m_footprints.clear(); if( m_testFootprints && !IsSingle() ) TestFootprints( ... );
RunTests_Footprints ==
    /\ pc = "footprints"
    /\ LET cleared == <<>>
       IN  IF DoTestFootprints
           THEN /\ m_footprints' = Stamp(TestFootprints(netlist, cleared), runId)
                /\ m_footprintsTested' = TRUE
                /\ Called("TestFootprints")
           ELSE /\ m_footprints' = cleared
                /\ m_footprintsTested' = FALSE
                /\ UNCHANGED driversRun
    /\ pc' = "disabled"
    /\ UNCHANGED <<ignored, markers, handed, ncVars, modules, netlist, runId, opts, isSingle,
                   m_pcb, connBuilds, m_unconnected, m_drcRun, scan, userAbort, ruleVars,
                   boardVars, locVars, urVars, logVars>>

\* if( !Ignore( DRCE_DISABLED_LAYER_ITEM ) ) testDisabledLayers();
RunTests_DisabledLayers ==
    /\ pc = "disabled"
    /\ CalledIf(DoDisabledLayers, "testDisabledLayers")
    /\ pc' = "textvars"
    /\ OnlyDriver

\* if( !Ignore( DRCE_UNRESOLVED_VARIABLE ) ) testTextVars(); m_drcRun = true; return
RunTests_TextVars ==
    /\ pc = "textvars"
    /\ CalledIf(DoTextVars, "testTextVars")
    /\ m_drcRun' = TRUE
    /\ pc' = "idle"
    /\ UNCHANGED <<ignored, markers, handed, ncVars, fpVars, runId, opts, isSingle, m_pcb,
                   connBuilds, m_unconnected, m_footprintsTested, scan, userAbort, ruleVars,
                   boardVars, locVars, urVars, logVars>>

\* the boards, the ignored codes and the rule files of the checked behaviours
BoardChoices ==
    { [outlineClosed |-> FALSE, nTracks |-> 3, vias |-> {2}, dangling |-> {1, 2}],
      [outlineClosed |-> TRUE, nTracks |-> 4 * delta + 10, vias |-> {delta + 100},
       dangling |-> {1, delta + 2, delta + 100, 4 * delta + 9}] }

\* the zones of the board with few tracks: two copper zones that overlap, the first in
\* a net without pads
BoardZones ==
    << [layer |-> "F.Cu", net |-> 2, priority |-> 0, keepout |-> FALSE, clearance |-> 1,
        rect |-> [x1 |-> 0, y1 |-> 0, x2 |-> 2, y2 |-> 2]],
       [layer |-> "F.Cu", net |-> 0, priority |-> 0, keepout |-> FALSE, clearance |-> 1,
        rect |-> [x1 |-> 1, y1 |-> 1, x2 |-> MaxCoord, y2 |-> MaxCoord]] >>

IgnoreChoices ==
    { {},
      {"DRCE_UNCONNECTED_ITEMS", "DRCE_DANGLING_VIA", "DRCE_NETCLASS_CLEARANCE",
       "DRCE_EXTRA_FOOTPRINT"},
      {"DRCE_DANGLING_TRACK", "DRCE_DANGLING_VIA", "DRCE_DUPLICATE_FOOTPRINT",
       "DRCE_INVALID_OUTLINE", "DRCE_ZONE_HAS_EMPTY_NET"},
      {"DRCE_OVERLAPPING_FOOTPRINTS", "DRCE_MISSING_COURTYARD", "DRCE_MALFORMED_COURTYARD",
       "DRCE_PTH_IN_COURTYARD", "DRCE_NPTH_IN_COURTYARD", "DRCE_DISABLED_LAYER_ITEM",
       "DRCE_UNRESOLVED_VARIABLE"} }

RulesFileChoices ==
    { NoRulesFile,
      [exists |-> TRUE, mtime |-> 1, readable |-> TRUE, content |-> "good"],
      [exists |-> TRUE, mtime |-> 1, readable |-> TRUE, content |-> "malformed"] }

Init ==
    /\ pc = "idle"
    /\ ignored \in IgnoreChoices
    /\ g = Minimums(1, 0)
    /\ netclasses = [Default |-> UniformClass("Default", MaxVal), classes |-> <<>>]
    /\ ncRet = TRUE
    /\ markers = <<>>
    /\ handed = <<>>
    /\ modules = <<RefR, RefU, Refr>>
    /\ netlist = <<[ref |-> RefR, value |-> "v"]>>
    /\ m_footprints = <<>>
    /\ InitDRC
    /\ m_pcb \in BoardChoices
    /\ isSingle \in BOOLEAN
    /\ rulesFile \in RulesFileChoices
    \* the board with many tracks is checked as a whole board without a rule file
    /\ m_pcb.nTracks > delta => ~isSingle /\ rulesFile = NoRulesFile
    /\ zones = IF m_pcb.nTracks > delta THEN <<>> ELSE BoardZones
    /\ pads = IF m_pcb.nTracks > delta THEN <<>> ELSE <<PadAt(0, 1)>>

Next ==
    \/ RunTests_Begin
    \/ RunTests_NetClasses
    \/ RunTests_Pad2Pad
    \/ RunTests_DrilledHoles
    \/ RunTests_ZoneFill
    \/ testTracks_Begin
    \/ testTracks_ScanToEnd
    \/ testTracks_Progress
    \/ testTracks_Abort
    \/ RunTests_Zones
    \/ RunTests_Unconnected
    \/ RunTests_Keepout
    \/ RunTests_CopperText
    \/ RunTests_Courtyards
    \/ RunTests_Footprints
    \/ RunTests_DisabledLayers
    \/ RunTests_TextVars

Spec == Init /\ [][Next]_vars

(* ------------------------------------------------------------------ *)
(* The net class check on its own                                      *)
(* ------------------------------------------------------------------ *)

InitNetClass ==
    /\ pc = "nc_start"
    /\ ignored \in { {}, {"DRCE_NETCLASS_CLEARANCE"} }
    /\ g \in { Minimums(f, a) : f \in {1, MaxVal}, a \in {0, 1} }
    /\ netclasses \in [Default : NetClassRecords("Default", 0..MaxVal),
                       classes : UserClassLists]
    /\ markers = <<>>
    /\ handed = <<>>
    /\ ncRet = TRUE
    /\ modules = <<>>
    /\ netlist = <<>>
    /\ m_footprints = <<>>
    /\ InitDRC
    /\ m_pcb = EmptyBoard
    /\ isSingle = FALSE
    /\ rulesFile = NoRulesFile
    /\ zones = <<>>
    /\ pads = <<>>

\* one run of DRC::testNetClasses
NetClassCheck ==
    /\ pc = "nc_start"
    /\ LET r == testNetClasses(netclasses, g)
       IN  /\ Emit(r.out)
           /\ ncRet' = r.ret
    /\ pc' = "nc_done"
    /\ UNCHANGED <<ignored, g, netclasses, fpVars, runVars, ruleVars,
                   boardVars, locVars, urVars, logVars>>

NextNetClass == NetClassCheck

SpecNetClass == InitNetClass /\ [][NextNetClass]_vars

(* ------------------------------------------------------------------ *)
(* Properties of the net class check                                   *)
(* ------------------------------------------------------------------ *)

\* the net classes the check covers: the Default class and every user class
AllClasses == {netclasses.Default} \cup { netclasses.classes[i] : i \in DOMAIN netclasses.classes }

\* field code of class nc is strictly below the board minimum; the via annulus is half the
\* difference of via diameter and via drill, compared without dividing
BelowFloor(nc, code) ==
    CASE code = "DRCE_NETCLASS_CLEARANCE"     -> nc.Clearance < g.m_MinClearance
      [] code = "DRCE_NETCLASS_TRACKWIDTH"    -> nc.TrackWidth < g.m_TrackMinWidth
      [] code = "DRCE_NETCLASS_VIASIZE"       -> nc.ViaDiameter < g.m_ViasMinSize
      [] code = "DRCE_NETCLASS_VIADRILLSIZE"  -> nc.ViaDrill < g.m_MinThroughDrill
      [] code = "DRCE_NETCLASS_VIAANNULUS"    ->
            LET d == nc.ViaDiameter - nc.ViaDrill
            IN  IF d >= 0 THEN d < 2 * g.m_ViasMinAnnulus
                          ELSE d < 2 * g.m_ViasMinAnnulus - 1
      [] code = "DRCE_NETCLASS_uVIASIZE"      -> nc.uViaDiameter < g.m_MicroViasMinSize
      [] code = "DRCE_NETCLASS_uVIADRILLSIZE" -> nc.uViaDrill < g.m_MicroViasMinDrill

\* the number of markers with this code naming this class that were handed over
Emitted(name, code) ==
    Cardinality({ i \in DOMAIN handed : handed[i].code = code /\ handed[i].msg[2] = name })

\* C4: one run of the net class check hands over, for the Default class and every user
\* class, exactly one violation tagged with the field's code for each of the 7 fields
\* strictly below the board minimum, and none for a field at or above it.
C4_OneViolationPerFieldBelowFloor ==
    pc = "nc_done" =>
        \A nc \in AllClasses : \A code \in NetClassCodes :
            Emitted(nc.name, code) = IF BelowFloor(nc, code) THEN 1 ELSE 0

\* C4 witness: a Default class whose only field below the minimum is the clearance was
\* checked and exactly one marker, a DRCE_NETCLASS_CLEARANCE, was handed over.
C4_Witness ==
    /\ pc = "nc_done"
    /\ \A code \in NetClassCodes :
          BelowFloor(netclasses.Default, code) <=> code = "DRCE_NETCLASS_CLEARANCE"
    /\ netclasses.classes = <<>>
    /\ Len(handed) = 1
    /\ handed[1].code = "DRCE_NETCLASS_CLEARANCE"

\* C5: the net class check does not stop at the first failure: every field below the
\* minimum of every class has its violation, and the result is false exactly when some
\* field of some class is below the minimum.
C5_AllFieldsOfAllClassesChecked ==
    pc = "nc_done" =>
        /\ \A nc \in AllClasses : \A code \in NetClassCodes :
              BelowFloor(nc, code) => Emitted(nc.name, code) >= 1
        /\ ncRet = ~(\E nc \in AllClasses : \E code \in NetClassCodes : BelowFloor(nc, code))

\* C5 witness: the Default class failed and a user class checked after it failed too, on
\* more than one field.
C5_Witness ==
    /\ pc = "nc_done"
    /\ ~ncRet
    /\ \E code \in NetClassCodes : BelowFloor(netclasses.Default, code)
    /\ Len(netclasses.classes) = 2
    /\ Emitted("B", "DRCE_NETCLASS_CLEARANCE") = 1
    /\ Emitted("B", "DRCE_NETCLASS_uVIADRILLSIZE") = 1

\* the annulus marker of class nc, if one was handed over
AnnulusMarkers(nc) ==
    { i \in DOMAIN handed :
        handed[i].code = "DRCE_NETCLASS_VIAANNULUS" /\ handed[i].msg[2] = nc.name }

\* C6 as stated: the annulus compared with the board minimum is the floor of
\* (viaSize - viaDrill)/2 for all integers, negative odd differences included.
C6_AnnulusIsFloorOfHalf ==
    pc = "nc_done" =>
        \A nc \in AllClasses :
            LET half == (nc.ViaDiameter - nc.ViaDrill) \div 2
            IN  /\ (AnnulusMarkers(nc) # {}) <=> (half < g.m_ViasMinAnnulus)
                /\ \A i \in AnnulusMarkers(nc) : handed[i].msg[3] = half

\* a is half of d rounded toward zero
HalfTowardZero(d, a) ==
    IF d >= 0 THEN 2 * a <= d /\ d < 2 * a + 2
              ELSE 2 * a >= d /\ d > 2 * a - 2

\* C6 amended: the annulus compared with the board minimum is (viaSize - viaDrill)/2
\* rounded toward zero: the floor when viaSize >= viaDrill, the ceiling when
\* viaSize < viaDrill.
C6_AnnulusIsHalfTowardZero ==
    pc = "nc_done" =>
        \A nc \in AllClasses :
            LET d == nc.ViaDiameter - nc.ViaDrill
            IN  /\ (AnnulusMarkers(nc) # {}) <=>
                     (\E a \in -MaxVal..MaxVal : HalfTowardZero(d, a) /\ a < g.m_ViasMinAnnulus)
                /\ \A i \in AnnulusMarkers(nc) : HalfTowardZero(d, handed[i].msg[3])
                /\ d >= 0 => \A i \in AnnulusMarkers(nc) : handed[i].msg[3] = d \div 2

\* C6 witness: a class with viaSize < viaDrill and an odd difference was checked and its
\* annulus violation reports the half rounded toward zero, not the floor.
C6_Witness ==
    /\ pc = "nc_done"
    /\ \E nc \in AllClasses :
          /\ nc.ViaDiameter - nc.ViaDrill = -1
          /\ \E i \in AnnulusMarkers(nc) : handed[i].msg[3] = 0

(* ------------------------------------------------------------------ *)
(* The footprint reconciliation on its own                             *)
(* ------------------------------------------------------------------ *)

\* the sequences over S of length at most n
SeqsUpTo(S, n) == UNION { [1..k -> S] : k \in 0..n }

FootprintCodes == {"DRCE_DUPLICATE_FOOTPRINT", "DRCE_MISSING_FOOTPRINT", "DRCE_EXTRA_FOOTPRINT"}

InitFootprints ==
    /\ pc = "fp_start"
    /\ ignored \in SUBSET FootprintCodes
    /\ modules \in SeqsUpTo(Refs, MaxModules)
    /\ netlist \in SeqsUpTo([ref : Refs, value : {"v"}], MaxComponents)
    /\ m_footprints = <<>>
    /\ markers = <<>>
    /\ handed = <<>>
    /\ g = Minimums(0, 0)
    /\ netclasses = [Default |-> UniformClass("Default", 0), classes |-> <<>>]
    /\ ncRet = TRUE
    /\ InitDRC
    /\ m_pcb = EmptyBoard
    /\ isSingle = FALSE
    /\ rulesFile = NoRulesFile
    /\ zones = <<>>
    /\ pads = <<>>

\* one call of DRC::TestFootprints on an empty list
FootprintsCheck ==
    /\ pc = "fp_start"
    /\ m_footprints' = TestFootprints(netlist, m_footprints)
    /\ pc' = "fp_done"
    /\ UNCHANGED <<ignored, markers, handed, ncVars, modules, netlist, runVars, ruleVars,
                   boardVars, locVars, urVars, logVars>>

NextFootprints == FootprintsCheck

SpecFootprints == InitFootprints /\ [][NextFootprints]_vars

\* the items of m_footprints with this code whose first item is footprint i
ItemsFor(code, i) ==
    { k \in DOMAIN m_footprints :
        /\ m_footprints[k].code = code
        /\ Len(m_footprints[k].items) >= 1
        /\ m_footprints[k].items[1] = i }

\* C7 as stated: with extra-footprint checking enabled, whatever else is ignored, every
\* footprint of the board whose reference is the reference of no netlist component has
\* exactly one DRCE_EXTRA_FOOTPRINT item, and no DRCE_MISSING_FOOTPRINT item names its
\* reference.
C7_OneExtraItemPerUnmatchedFootprint ==
    (pc = "fp_done" /\ "DRCE_EXTRA_FOOTPRINT" \notin ignored) =>
        \A i \in DOMAIN modules :
            (\A c \in DOMAIN netlist : netlist[c].ref # modules[i]) =>
                /\ Cardinality(ItemsFor("DRCE_EXTRA_FOOTPRINT", i)) = 1
                /\ \A k \in DOMAIN m_footprints :
                      m_footprints[k].code = "DRCE_MISSING_FOOTPRINT"
                          => m_footprints[k].msg[1] # modules[i]

\* a reference with its letters folded to lower case
FoldCase(ref) == [k \in DOMAIN ref |-> IF ref[k] \in 65..90 THEN ref[k] + 32 ELSE ref[k]]

\* the footprints before i in board order whose reference equals that of i ignoring case
EarlierSameRef(i) == { j \in 1..(i - 1) : FoldCase(modules[j]) = FoldCase(modules[i]) }

\* C8: with duplicate checking enabled, each footprint whose reference equals, ignoring
\* case, that of an earlier footprint has exactly one DRCE_DUPLICATE_FOOTPRINT item, which
\* pairs it with the first footprint of that reference; a footprint with no earlier
\* equal reference has none.
C8_DuplicatesKeyedIgnoringCase ==
    (pc = "fp_done" /\ "DRCE_DUPLICATE_FOOTPRINT" \notin ignored) =>
        \A i \in DOMAIN modules :
            LET dups == ItemsFor("DRCE_DUPLICATE_FOOTPRINT", i)
            IN  IF EarlierSameRef(i) = {}
                THEN dups = {}
                ELSE /\ Cardinality(dups) = 1
                     /\ \A k \in dups :
                           /\ m_footprints[k].items[2] \in EarlierSameRef(i)
                           /\ \A j \in EarlierSameRef(i) : m_footprints[k].items[2] <= j

\* C8 witness: a board with "R", then "U", then "r" was checked: the third footprint is
\* paired with the first, the second has no item.
C8_Witness ==
    /\ pc = "fp_done"
    /\ "DRCE_DUPLICATE_FOOTPRINT" \notin ignored
    /\ modules = <<RefR, RefU, Refr>>
    /\ \E k \in DOMAIN m_footprints :
          m_footprints[k].code = "DRCE_DUPLICATE_FOOTPRINT" /\ m_footprints[k].items = <<3, 1>>
    /\ ItemsFor("DRCE_DUPLICATE_FOOTPRINT", 2) = {}

(* ------------------------------------------------------------------ *)
(* Properties of RunTests                                              *)
(* ------------------------------------------------------------------ *)

\* the drivers called so far in this invocation of RunTests
DriversCalled == { driversRun[i] : i \in DOMAIN driversRun }

\* the tests that rebuilt the connectivity so far in this invocation
ConnectivityBuiltBy == { connBuilds[i] : i \in DOMAIN connBuilds }

\* the drivers RunTests calls after the net class check
DriversAfterNetClasses ==
    {"testPad2Pad", "testDrilledHoles", "FillAllZones", "CheckAllZones", "testTracks",
     "testZones", "testUnconnected", "testKeepoutAreas", "testCopperTextAndGraphics",
     "doCourtyardsDrc", "TestFootprints", "testDisabledLayers", "testTextVars"}

\* the drivers RunTests calls after testTracks
DriversAfterTracks ==
    {"testZones", "testUnconnected", "testKeepoutAreas", "testCopperTextAndGraphics",
     "doCourtyardsDrc", "TestFootprints", "testDisabledLayers", "testTextVars"}

\* the codes of the net class check
IsNetClassCode(code) == code \in NetClassCodes

\* C1: whenever the net class check of an invocation of RunTests has reported a failure,
\* RunTests has returned to its caller and none of the later drivers was called in that
\* invocation.
C1_NetClassFailureSkipsLaterDrivers ==
    ~ncRet =>
        /\ pc = "idle"
        /\ DriversCalled \cap DriversAfterNetClasses = {}

\* C1 witness: an invocation whose net class check handed over a net class violation
\* has returned after loadRules, testOutline and testNetClasses only.
C1_Witness ==
    /\ ~ncRet
    /\ pc = "idle"
    /\ runId >= 1
    /\ driversRun = <<"loadRules", "testOutline", "testNetClasses">>
    /\ \E i \in DOMAIN handed : IsNetClassCode(handed[i].code)

\* C2 as stated: once the progress dialog has signalled the abort by the user during the
\* track scan of an invocation, no driver that follows testTracks in RunTests is called
\* in that invocation.
C2_NoDriverAfterUserAbort ==
    userAbort => DriversCalled \cap DriversAfterTracks = {}

\* C3 as stated: after an invocation of RunTests has returned, the unconnected items
\* and the footprint discrepancies are all items that this invocation produced.
C3_ResultsOnlyFromThisInvocation ==
    (pc = "idle" /\ runId >= 1) =>
        /\ \A k \in DOMAIN m_unconnected : m_unconnected[k].run = runId
        /\ \A k \in DOMAIN m_footprints : m_footprints[k].run = runId

\* the number of times the marker object with this identity is on the board
TimesOnBoard(id) == Cardinality({ k \in DOMAIN markers : markers[k].id = id })

\* C9: of the markers handed to addMarkerToPcb, one whose code the design settings
\* ignore is not on the board, and one whose code is not ignored is on the board exactly
\* once; nothing else is on the board.
C9_SinkDropsIgnoredAddsOthersOnce ==
    /\ \A i \in DOMAIN handed :
          TimesOnBoard(handed[i].id) = IF handed[i].code \in ignored THEN 0 ELSE 1
    /\ \A k \in DOMAIN markers : \E i \in DOMAIN handed : handed[i] = markers[k]

\* C9 witness: a marker with an ignored code and a marker with a code that is not
\* ignored were both handed over; the first is not on the board, the second is.
C9_Witness ==
    \E i, j \in DOMAIN handed :
        /\ handed[i].code \in ignored
        /\ TimesOnBoard(handed[i].id) = 0
        /\ handed[j].code \notin ignored
        /\ TimesOnBoard(handed[j].id) = 1

\* RunTests is past its step for the unconnected test and was not left at the net
\* class check
PastUnconnectedStep ==
    \/ pc \in {"keepout", "text", "courtyards", "footprints", "disabled", "textvars"}
    \/ pc = "idle" /\ runId >= 1 /\ ncRet

\* C10: in an invocation that the net class check did not end, testUnconnected is called
\* exactly when m_doUnconnectedTest is set and DRCE_UNCONNECTED_ITEMS is not ignored; the
\* connectivity is rebuilt for this test exactly when it is called, so never when the
\* code is ignored.
C10_UnconnectedIffOptionAndNotIgnored ==
    /\ PastUnconnectedStep =>
          ("testUnconnected" \in DriversCalled) <=>
              (opts.m_doUnconnectedTest /\ "DRCE_UNCONNECTED_ITEMS" \notin ignored)
    /\ ("testUnconnected" \in ConnectivityBuiltBy) <=> ("testUnconnected" \in DriversCalled)
    /\ "DRCE_UNCONNECTED_ITEMS" \in ignored => "testUnconnected" \notin ConnectivityBuiltBy

\* C10 witness: an invocation with m_doUnconnectedTest set and DRCE_UNCONNECTED_ITEMS
\* ignored has run to its end without calling testUnconnected and without its
\* connectivity rebuild.
C10_Witness ==
    /\ pc = "idle"
    /\ m_drcRun
    /\ ncRet
    /\ opts.m_doUnconnectedTest
    /\ "DRCE_UNCONNECTED_ITEMS" \in ignored
    /\ "testZones" \in DriversCalled
    /\ "testUnconnected" \notin DriversCalled
    /\ "testUnconnected" \notin ConnectivityBuiltBy

(* ------------------------------------------------------------------ *)
(* The zone check on its own                                           *)
(* ------------------------------------------------------------------ *)

\* the rectangles with corners on the grid
Rects ==
    { [x1 |-> a, y1 |-> b, x2 |-> c, y2 |-> d] :
        a \in 0..MaxCoord, b \in 0..MaxCoord, c \in 0..MaxCoord, d \in 0..MaxCoord }

ProperRects == { r \in Rects : r.x1 < r.x2 /\ r.y1 < r.y2 }

\* a square in the middle of the grid and a bar across it
MiddleSquare == [x1 |-> 1, y1 |-> 1, x2 |-> 2, y2 |-> 2]
Bar == [x1 |-> 0, y1 |-> 1, x2 |-> MaxCoord, y2 |-> 2]

\* the first zone of the board: on copper with any net and kind, or on a drawing layer
FirstZones ==
    { z \in [layer : {"F.Cu", "Dwgs.User"}, net : {0, 1}, priority : {0}, keepout : BOOLEAN,
             clearance : {0}, rect : {MiddleSquare, Bar}] :
        z.layer = "Dwgs.User" => z.net = 0 /\ ~z.keepout }

\* the second zone of the board: any outline and clearance on the layer of the first
\* copper zone, one outline on the other layers
SecondZones ==
    { z \in [layer : {"F.Cu", "B.Cu", "Dwgs.User"}, net : {0, 1}, priority : {0, 1},
             keepout : BOOLEAN, clearance : 0..MaxZoneClearance, rect : ProperRects] :
        z.layer # "F.Cu" => z.rect = MiddleSquare /\ z.clearance = 0 }

\* a third zone, when the board has one
ThirdZone ==
    [layer |-> "F.Cu", net |-> 2, priority |-> 0, keepout |-> FALSE, clearance |-> 1,
     rect |-> [x1 |-> 0, y1 |-> 0, x2 |-> 1, y2 |-> 1]]

InitZones ==
    /\ pc = "zn_start"
    /\ ignored \in { {}, {"DRCE_ZONE_HAS_EMPTY_NET"} }
    /\ \E a \in FirstZones : \E b \in SecondZones :
          zones \in { <<a, b>>, <<a, b, ThirdZone>> }
    /\ pads \in { <<>>, <<PadAt(0, 1)>> }
    /\ (pads # <<>> \/ Len(zones) = 3) => ignored = {}
    /\ pads # <<>> => Len(zones) = 2
    /\ markers = <<>>
    /\ handed = <<>>
    /\ g = Minimums(0, 0)
    /\ netclasses = [Default |-> UniformClass("Default", 0), classes |-> <<>>]
    /\ ncRet = TRUE
    /\ modules = <<>>
    /\ netlist = <<>>
    /\ m_footprints = <<>>
    /\ InitDRC
    /\ m_pcb = EmptyBoard
    /\ isSingle = FALSE
    /\ rulesFile = NoRulesFile

\* one call of DRC::testZones
ZonesCheck ==
    /\ pc = "zn_start"
    /\ LET r == testZones(zones)
       IN  /\ Emit(r.out)
           /\ zoneLog' = r.examined
    /\ pc' = "zn_done"
    /\ UNCHANGED <<ignored, ncVars, fpVars, runVars, ruleVars, boardVars, locVars,
                   urVars, padLog, scanLog,
                   ruleLog>>

NextZones == ZonesCheck

SpecZones == InitZones /\ [][NextZones]_vars

(* ------------------------------------------------------------------ *)
(* Rule loads and changes of the rule file                             *)
(* ------------------------------------------------------------------ *)

\* the states of the file "drc-rules" of the project
RulesFileStates ==
    { NoRulesFile } \cup
    { [exists |-> TRUE, mtime |-> t, readable |-> rd, content |-> c] :
        t \in 1..MaxMtime, rd \in BOOLEAN, c \in {"good", "good2", "malformed"} }

InitRules ==
    /\ pc = "idle"
    /\ ignored = {}
    /\ zones = <<>>
    /\ pads = <<>>
    /\ markers = <<>>
    /\ handed = <<>>
    /\ g = Minimums(0, 0)
    /\ netclasses = [Default |-> UniformClass("Default", 0), classes |-> <<>>]
    /\ ncRet = TRUE
    /\ modules = <<>>
    /\ netlist = <<>>
    /\ m_footprints = <<>>
    /\ InitDRC
    /\ m_pcb = EmptyBoard
    /\ isSingle = FALSE
    /\ rulesFile \in RulesFileStates

\* the file is written, removed, or its permissions are changed, outside the checker
ChangeRulesFile ==
    /\ pc = "idle"
    /\ rulesFile' \in RulesFileStates \ {rulesFile}
    /\ UNCHANGED <<pc, ignored, markers, handed, ncVars, fpVars, runVars, m_rulesFileLastMod,
                   m_rules, bds_rules, boardVars, locVars, urVars, logVars>>

\* DRC::Reset: the board of the frame is this board; loadRules()
Reset ==
    /\ pc = "idle"
    /\ LET r == loadRules(rulesFile, m_rulesFileLastMod, m_rules)
       IN  /\ m_rulesFileLastMod' = r.lastMod
           /\ m_rules' = r.rules
           /\ bds_rules' = r.rules
           /\ ruleLog' = Loaded(r)
    /\ UNCHANGED <<pc, ignored, markers, handed, ncVars, fpVars, runVars, rulesFile,
                   boardVars, locVars, urVars,
                   zoneLog, padLog, scanLog>>

NextRules == ChangeRulesFile \/ Reset

SpecRules == InitRules /\ [][NextRules]_vars

(* ------------------------------------------------------------------ *)
(* The pad to pad check on its own                                     *)
(* ------------------------------------------------------------------ *)

\* the reference pads of the boards checked: at the origin
FirstPads ==
    { [PadAt(0, net) EXCEPT !.clearance = c, !.layers = l, !.drill = d, !.drillShape = s] :
        net \in {0, 1}, c \in {0, 1}, l \in {{"F.Cu"}, {"F.Paste"}}, d \in {0, 2},
        s \in {"circle", "oblong"} }

\* the second pads: anywhere on the x axis, or next to the origin
SecondPads ==
    { [x |-> x, y |-> y, radius |-> r, clearance |-> c, net |-> net, parent |-> par,
       name |-> nm, layers |-> l, drill |-> d, drillShape |-> s, orient |-> o] :
        x \in 0..MaxPadX, y \in {0, 1}, r \in {1, 2}, c \in {0, MaxPadClearance},
        net \in {0, 1, 2}, par \in {1, 2}, nm \in {"1", "2"},
        l \in {{"F.Cu"}, {"B.Cu"}, {"F.Paste"}}, d \in {0, 2},
        s \in {"circle", "oblong"}, o \in {0, 90} }

\* the third pads: one next to the origin and one far from it
ThirdPads == { [PadAt(1, 0) EXCEPT !.parent = 3], [PadAt(MaxPadX, 0) EXCEPT !.parent = 3] }

InitPads ==
    /\ pc = "pp_start"
    /\ ignored = {}
    /\ zones = <<>>
    /\ \E a \in FirstPads : \E b \in SecondPads :
          /\ a.drillShape = "oblong" => (a.drill = 2 /\ a.net = 0 /\ a.clearance = 0)
          /\ b.drillShape = "oblong" => (b.x = 0 /\ b.y = 0 /\ b.drill = 2 /\ b.radius = 1)
          /\ b.orient = 90 => b.drillShape = "oblong"
          /\ b.y = 1 => (b.x = 0 /\ b.radius = 1 /\ b.drillShape = "circle")
          /\ pads \in { <<b, a>> } \cup { <<b, c, a>> : c \in ThirdPads }
          /\ Len(pads) = 3 => (b.net # 2 /\ b.name = "1" /\ b.y = 0 /\ b.drillShape = "circle"
                               /\ a.drillShape = "circle")
    /\ markers = <<>>
    /\ handed = <<>>
    /\ g = Minimums(0, 0)
    /\ netclasses = [Default |-> UniformClass("Default", 0), classes |-> <<>>]
    /\ ncRet = TRUE
    /\ modules = <<>>
    /\ netlist = <<>>
    /\ m_footprints = <<>>
    /\ InitDRC
    /\ m_pcb = EmptyBoard
    /\ isSingle = FALSE
    /\ rulesFile = NoRulesFile

\* one call of DRC::testPad2Pad
PadsCheck ==
    /\ pc = "pp_start"
    /\ Emit(testPad2Pad.out)
    /\ padLog' = testPad2Pad.calls
    /\ pc' = "pp_done"
    /\ UNCHANGED <<ignored, ncVars, fpVars, runVars, ruleVars, boardVars, locVars,
                   urVars, zoneLog, scanLog,
                   ruleLog>>

NextPads == PadsCheck

SpecPads == InitPads /\ [][NextPads]_vars

(* ------------------------------------------------------------------ *)
(* Properties of the pad to pad check                                  *)
(* ------------------------------------------------------------------ *)

\* the markers of the pad to pad check for the reference pad ref and the candidate cand
PadMarkersOf(ref, cand) ==
    { i \in DOMAIN handed :
        /\ handed[i].code \in {"DRCE_PAD_NEAR_PAD", "DRCE_HOLE_NEAR_PAD"}
        /\ handed[i].items \in { <<ref, cand>>, <<cand, ref>> } }

\* the candidate is the reference pad, or on its net, or the pad of the same name of its
\* footprint
SkippedPair(ref, cand) ==
    \/ ref = cand
    \/ pads[ref].net = pads[cand].net /\ pads[cand].net # 0
    \/ pads[ref].parent = pads[cand].parent /\ pads[ref].name = pads[cand].name

\* C15: the pad to pad check hands over no violation of any kind for a reference pad and
\* a candidate that is the reference pad itself, that is on the same net, or that has the
\* same footprint and the same pad name, whatever the layers and the holes of the two.
C15_NoViolationForSkippedPairs ==
    pc = "pp_done" =>
        \A ref \in DOMAIN pads : \A cand \in DOMAIN pads :
            SkippedPair(ref, cand) => PadMarkersOf(ref, cand) = {}

\* C16: the early exit of the scan loses nothing: a candidate after the reference pad
\* whose x is beyond refPad.x + clearance + boundingRadius + maxBoundingRadius passes the
\* tests of the loop, each with the clearance the loop applies to it (the clearance of
\* the reference pad for the pad to pad test and for the hole of the candidate, the
\* clearance of the candidate for the hole of the reference pad).
C16_NoViolationBeyondLimit ==
    pc = "pp_done" =>
        \A c \in DOMAIN padLog :
            \A k \in (padLog[c].start + 1)..Len(pads) :
                LET cand == GetSortedPadListByXthenYCoord[k]
                IN  pads[cand].x > padLog[c].x_limit => PadPairTest(padLog[c].ref, cand) = <<>>

\* the candidates of call c that lie after the reference pad within the limit of the
\* call and raise a violation when tested against it
Offenders(c) ==
    { k \in (padLog[c].start + 1)..Len(pads) :
        LET cand == GetSortedPadListByXthenYCoord[k]
        IN  /\ \A j \in (padLog[c].start + 1)..k :
                  pads[GetSortedPadListByXthenYCoord[j]].x <= padLog[c].x_limit
            /\ PadPairTest(padLog[c].ref, cand) # <<>> }

\* C17: testPad2Pad calls doPadToPadsDrc once for every pad, in the sorted order; a call
\* hands over at most one violation, stops at the first candidate that raises one and
\* returns false then; it returns true exactly when it has handed over nothing.
C17_OneViolationPerCall ==
    pc = "pp_done" =>
        /\ Len(padLog) = Len(pads)
        /\ \A c \in DOMAIN padLog :
              /\ padLog[c].ref = GetSortedPadListByXthenYCoord[c]
              /\ Len(padLog[c].out) <= 1
              /\ padLog[c].ret <=> padLog[c].out = <<>>
              /\ padLog[c].ret <=> Offenders(c) = {}
              /\ ~padLog[c].ret =>
                    LET first == CHOOSE k \in Offenders(c) : \A o \in Offenders(c) : k <= o
                    IN  /\ padLog[c].tested =
                              [j \in 1..(first - padLog[c].start) |->
                                  GetSortedPadListByXthenYCoord[padLog[c].start + j]]
                        /\ padLog[c].out =
                              PadPairTest(padLog[c].ref, GetSortedPadListByXthenYCoord[first])
        /\ Len(handed) = Cardinality({ c \in DOMAIN padLog : ~padLog[c].ret })

\* C17 witness: a call with two offending candidates has handed over one violation and
\* returned false, and the calls for the later pads were made.
C17_Witness ==
    /\ pc = "pp_done"
    /\ Len(padLog) = 3
    /\ Cardinality(Offenders(1)) = 2
    /\ ~padLog[1].ret
    /\ Len(padLog[1].out) = 1
    /\ Len(padLog[1].tested) = 1

(* ------------------------------------------------------------------ *)
(* Properties of the zone check                                        *)
(* ------------------------------------------------------------------ *)

\* the pairs of zones in the order the pair loop visits them
ZonePairs == { pr \in (DOMAIN zones) \X (DOMAIN zones) : pr[1] < pr[2] }

\* the reasons to skip a pair: different layers, the same net with a net code above 0,
\* different priorities, one keepout and one not
SkipReason(zoneRef, zoneToTest) ==
    \/ zoneRef.layer # zoneToTest.layer
    \/ (zoneRef.net = zoneToTest.net /\ zoneRef.net > 0)
    \/ zoneRef.priority # zoneToTest.priority
    \/ zoneRef.keepout # zoneToTest.keepout

\* C12 as stated: a pair of zones is examined exactly when its reference zone is on a
\* copper layer and no reason to skip it holds; two zones on the same layer, of the same
\* priority and kind, that both have net code 0 are examined.
C12_PairsSkippedExactlyAsListed ==
    pc = "zn_done" =>
        \A pr \in ZonePairs :
            (pr \in zoneLog) <=>
                (IsOnCopperLayer(zones[pr[1]]) /\ ~SkipReason(zones[pr[1]], zones[pr[2]]))

\* the markers handed over for the conflicts of the segments of a pair
ConflictMarkersOf(pr) ==
    { i \in DOMAIN handed :
        /\ handed[i].code \in {"DRCE_ZONES_INTERSECT", "DRCE_ZONES_TOO_CLOSE"}
        /\ handed[i].from = "conflict"
        /\ handed[i].items = pr }

\* the results of GetClearanceBetweenSegments over the segments of the two outlines
SegmentResults(pr) ==
    LET refSegs == OutlineSegments(zones[pr[1]])
        testSegs == OutlineSegments(zones[pr[2]])
    IN  { GetClearanceBetweenSegments(testSegs[j], refSegs[i]) :
            i \in DOMAIN refSegs, j \in DOMAIN testSegs }

\* the separations below the clearance measured at point pt
SeparationsAt(pr, pt) ==
    { r.d : r \in { q \in SegmentResults(pr) :
                      q.pt = pt /\ q.d < Zone2ZoneClearance(zones[pr[1]], zones[pr[2]]) } }

\* the conflict points of a pair: the points with a separation below the clearance
ConflictPointsOf(pr) ==
    { r.pt : r \in { q \in SegmentResults(pr) :
                       q.d < Zone2ZoneClearance(zones[pr[1]], zones[pr[2]]) } }

\* C13: for every examined pair, each conflict point has exactly one marker, at that
\* point: a DRCE_ZONES_INTERSECT when the smallest separation measured there is 0, a
\* DRCE_ZONES_TOO_CLOSE whose message carries that separation when it is positive; no
\* marker is handed over for a separation at or above the clearance.
C13_ZeroIntersectsPositiveTooClose ==
    pc = "zn_done" =>
        \A pr \in zoneLog :
            LET clearance == Zone2ZoneClearance(zones[pr[1]], zones[pr[2]])
            IN  /\ \A pt \in ConflictPointsOf(pr) :
                      LET sep == CHOOSE d \in SeparationsAt(pr, pt) :
                                    \A e \in SeparationsAt(pr, pt) : d <= e
                          at == { i \in ConflictMarkersOf(pr) : handed[i].pos = pt }
                      IN  /\ Cardinality(at) = 1
                          /\ \A i \in at :
                                IF sep = 0
                                THEN handed[i].code = "DRCE_ZONES_INTERSECT"
                                ELSE /\ handed[i].code = "DRCE_ZONES_TOO_CLOSE"
                                     /\ handed[i].msg[3] = sep
                                     /\ sep > 0 /\ sep < clearance
                /\ \A i \in ConflictMarkersOf(pr) : handed[i].pos \in ConflictPointsOf(pr)

\* C13 witness: an examined pair has a conflict point with separation 0, reported as an
\* intersection, and another with a positive separation, reported as too close with
\* that separation.
C13_Witness ==
    /\ pc = "zn_done"
    /\ \E pr \in zoneLog :
          /\ \E i \in ConflictMarkersOf(pr) : handed[i].code = "DRCE_ZONES_INTERSECT"
          /\ \E i \in ConflictMarkersOf(pr) :
                /\ handed[i].code = "DRCE_ZONES_TOO_CLOSE"
                /\ handed[i].msg[3] = 1
                /\ handed[i].msg[2] = 2

\* the smallest separation below the clearance measured at point pt
SmallestAt(pr, pt) ==
    CHOOSE d \in SeparationsAt(pr, pt) : \A e \in SeparationsAt(pr, pt) : d <= e

\* C26: for each examined pair the conflicts of the segments are kept once per point:
\* no two markers of the pair for conflicts of segments are at the same point, and the
\* separation a marker reports (the value in the message of a DRCE_ZONES_TOO_CLOSE, and
\* 0 or less for a DRCE_ZONES_INTERSECT) is the smallest one measured at its point over
\* all pairs of segments.
C26_OneMarkerPerPointWithSmallestSeparation ==
    pc = "zn_done" =>
        \A pr \in zoneLog :
            /\ \A i, j \in ConflictMarkersOf(pr) : handed[i].pos = handed[j].pos => i = j
            /\ \A i \in ConflictMarkersOf(pr) :
                  /\ SeparationsAt(pr, handed[i].pos) # {}
                  /\ IF handed[i].code = "DRCE_ZONES_TOO_CLOSE"
                     THEN handed[i].msg[3] = SmallestAt(pr, handed[i].pos)
                     ELSE SmallestAt(pr, handed[i].pos) <= 0

\* C26 witness: the pairs of segments of an examined pair have given the same point
\* with the separations 0 and 1, both below the clearance, and the one marker at the
\* point is for the smaller one: an intersection.
C26_Witness ==
    /\ pc = "zn_done"
    /\ \E pr \in zoneLog : \E i \in ConflictMarkersOf(pr) :
          /\ SeparationsAt(pr, handed[i].pos) = {0, 1}
          /\ handed[i].code = "DRCE_ZONES_INTERSECT"
          /\ Cardinality({ k \in ConflictMarkersOf(pr) : handed[k].pos = handed[i].pos }) = 1

\* the markers of the zone to zone test for a pair, of any kind
ZoneMarkersOf(pr) ==
    { i \in DOMAIN handed : handed[i].from \in {"corner", "conflict"} /\ handed[i].items = pr }

\* C29: for every examined pair of keepout zones the clearance of the test is 1, and
\* every violation handed over for the pair is an intersection: never a
\* DRCE_ZONES_TOO_CLOSE.
C29_KeepoutPairsOnlyIntersect ==
    pc = "zn_done" =>
        \A pr \in zoneLog :
            zones[pr[1]].keepout =>
                /\ zones[pr[2]].keepout
                /\ \A i \in ZoneMarkersOf(pr) : handed[i].code = "DRCE_ZONES_INTERSECT"
                /\ \A r \in SegmentResults(pr) :
                      (r.d >= 1) => ~\E i \in ConflictMarkersOf(pr) :
                                       handed[i].pos = r.pt /\ SmallestAt(pr, r.pt) >= 1

\* C29 witness: a pair of keepout zones whose own clearance is 2 was examined; their
\* outlines come within 1 of each other at some point and touch at another, and the
\* only markers of the pair are intersections.
C29_Witness ==
    /\ pc = "zn_done"
    /\ \E pr \in zoneLog :
          /\ zones[pr[1]].keepout
          /\ ZoneClearance(zones[pr[1]], zones[pr[2]]) = 2
          /\ \E r \in SegmentResults(pr) : r.d = 1
          /\ ZoneMarkersOf(pr) # {}
          /\ \A i \in ZoneMarkersOf(pr) : handed[i].code = "DRCE_ZONES_INTERSECT"

\* the outlines of two zones overlap: they have inner points in common
OutlinesOverlap(a, b) ==
    /\ MaxOf(a.rect.x1, b.rect.x1) < MinOf(a.rect.x2, b.rect.x2)
    /\ MaxOf(a.rect.y1, b.rect.y1) < MinOf(a.rect.y2, b.rect.y2)

\* the DRCE_ZONES_INTERSECT markers handed over for a pair, in either order of its zones
IntersectMarkersOf(pr) ==
    { i \in DOMAIN handed :
        /\ handed[i].code = "DRCE_ZONES_INTERSECT"
        /\ handed[i].items \in { pr, <<pr[2], pr[1]>> } }

\* C14 as stated: every pair of zones on the same layer whose outlines overlap has at
\* least one DRCE_ZONES_INTERSECT marker.
C14_OverlapHasIntersectMarker ==
    pc = "zn_done" =>
        \A pr \in ZonePairs :
            (zones[pr[1]].layer = zones[pr[2]].layer
                /\ OutlinesOverlap(zones[pr[1]], zones[pr[2]]))
            => IntersectMarkersOf(pr) # {}

\* the codes of the courtyard test
CourtyardCodes ==
    {"DRCE_OVERLAPPING_FOOTPRINTS", "DRCE_MISSING_COURTYARD", "DRCE_MALFORMED_COURTYARD",
     "DRCE_PTH_IN_COURTYARD", "DRCE_NPTH_IN_COURTYARD"}

\* the code of the dangling test for a segment
DanglingCode(seg) == IF seg \in m_pcb.vias THEN "DRCE_DANGLING_VIA" ELSE "DRCE_DANGLING_TRACK"

\* a marker with this code for this item was handed to addMarkerToPcb
Detected(code, item) ==
    \E i \in DOMAIN handed : handed[i].code = code /\ handed[i].items = <<item>>

\* the copper zones of the board whose net has no pad
ZonesWithoutPads ==
    { ii \in DOMAIN zones :
        /\ zones[ii].layer \in {"F.Cu", "B.Cu"}
        /\ zones[ii].net > 0
        /\ \A k \in DOMAIN pads : pads[k].net # zones[ii].net }

\* the invocation of RunTests has run to its end, with a track scan that was not aborted
RanToEnd == pc = "idle" /\ runId >= 1 /\ ncRet /\ ~userAbort

\* the footprint discrepancies with this code
FootprintItems(code) == { k \in DOMAIN m_footprints : m_footprints[k].code = code }

\* C11 as stated: whether the courtyard test, the dangling test, the test of the nets
\* of the zones, the disabled layer test, the text variable test and the footprint
\* searches run does not depend on the ignored codes: in an invocation that ran to its
\* end each of them has run and has detected what the board holds.
C11_DetectionIndependentOfIgnore ==
    RanToEnd =>
        /\ "doCourtyardsDrc" \in DriversCalled
        /\ "testDisabledLayers" \in DriversCalled
        /\ "testTextVars" \in DriversCalled
        /\ \A seg \in m_pcb.dangling : Detected(DanglingCode(seg), seg)
        /\ \A ii \in ZonesWithoutPads : Detected("DRCE_ZONE_HAS_EMPTY_NET", ii)
        /\ DoTestFootprints =>
              /\ FootprintItems("DRCE_DUPLICATE_FOOTPRINT") # {}
              /\ FootprintItems("DRCE_EXTRA_FOOTPRINT") # {}

\* C11 amended: these tests are skipped at detection when their codes are ignored: the
\* courtyard test runs exactly when one of its five codes is not ignored, the disabled
\* layer test and the text variable test exactly when their code is not ignored, a
\* dangling end or a zone without pads is detected exactly when its code is not
\* ignored, the connectivity is rebuilt for the dangling test exactly when one dangling
\* code is not ignored, and a footprint search adds items only when its code is not
\* ignored. The outline check is filtered only at the marker sink.
C11_DetectionSkippedWhenIgnored ==
    RanToEnd =>
        /\ ("doCourtyardsDrc" \in DriversCalled) <=> (CourtyardCodes \ ignored # {})
        /\ ("testDisabledLayers" \in DriversCalled) <=> ("DRCE_DISABLED_LAYER_ITEM" \notin ignored)
        /\ ("testTextVars" \in DriversCalled) <=> ("DRCE_UNRESOLVED_VARIABLE" \notin ignored)
        /\ \A seg \in m_pcb.dangling :
              Detected(DanglingCode(seg), seg) <=> (DanglingCode(seg) \notin ignored)
        /\ ("testTracks" \in ConnectivityBuiltBy) <=>
              ({"DRCE_DANGLING_TRACK", "DRCE_DANGLING_VIA"} \ ignored # {})
        /\ \A ii \in ZonesWithoutPads :
              Detected("DRCE_ZONE_HAS_EMPTY_NET", ii) <=> ("DRCE_ZONE_HAS_EMPTY_NET" \notin ignored)
        /\ \A code \in FootprintCodes : code \in ignored => FootprintItems(code) = {}
        /\ (DoTestFootprints /\ "DRCE_DUPLICATE_FOOTPRINT" \notin ignored)
              => FootprintItems("DRCE_DUPLICATE_FOOTPRINT") # {}
        /\ ~m_pcb.outlineClosed => Detected("DRCE_INVALID_OUTLINE", "board")

\* C11 witness: an invocation with the dangling codes and DRCE_ZONE_HAS_EMPTY_NET ignored
\* ran to its end on a board with dangling ends and a zone without pads: none of them was
\* detected, and the connectivity was not rebuilt for the dangling test.
C11_Witness ==
    /\ RanToEnd
    /\ {"DRCE_DANGLING_TRACK", "DRCE_DANGLING_VIA", "DRCE_ZONE_HAS_EMPTY_NET"} \subseteq ignored
    /\ m_pcb.dangling # {}
    /\ ZonesWithoutPads # {}
    /\ \A seg \in m_pcb.dangling : ~Detected(DanglingCode(seg), seg)
    /\ \A ii \in ZonesWithoutPads : ~Detected("DRCE_ZONE_HAS_EMPTY_NET", ii)
    /\ "testTracks" \notin ConnectivityBuiltBy
    /\ "testDisabledLayers" \in DriversCalled

(* ------------------------------------------------------------------ *)
(* Properties of the track scan                                        *)
(* ------------------------------------------------------------------ *)

\* the segments for which the current call of testTracks has handed over a marker
SegmentsMarked ==
    { handed[i].items[1] :
        i \in { j \in DOMAIN handed : j > scanLog.base /\ handed[j].code \in {"DRCE_DANGLING_TRACK", "DRCE_DANGLING_VIA"} } }

\* C18: when the progress sink answers that the user has aborted, the scan stops at
\* once: the body of the loop has run for the segments before the one the loop was at
\* and for no other, no violation is handed over for that segment or a later one, and
\* the loop is not entered again.
C18_AbortStopsScanAtOnce ==
    scanLog.abortAt > 0 =>
        /\ pc # "trackscan"
        /\ scanLog.examined = scanLog.abortAt - 1
        /\ \A seg \in SegmentsMarked : seg < scanLog.abortAt
        /\ \A seg \in m_pcb.dangling :
              (seg < scanLog.abortAt /\ ~Ignore(DanglingCode(seg))) => seg \in SegmentsMarked

\* C18 witness: the user has aborted at the first progress report, with the loop at a
\* segment with a dangling end; the dangling segment before it has its marker.
C18_Witness ==
    /\ scanLog.abortAt \in m_pcb.dangling
    /\ Len(scanLog.reports) = 1
    /\ ignored = {}
    /\ 1 \in SegmentsMarked
    /\ pc = "zones"

\* C19: the k-th progress report of the scan is made after exactly 500 * k segments
\* have been examined.
C19_ReportEveryDeltaSegments ==
    \A k \in DOMAIN scanLog.reports : scanLog.reports[k] = delta * k

(* ------------------------------------------------------------------ *)
(* Properties of the rule loads                                        *)
(* ------------------------------------------------------------------ *)

\* C20 as stated: a load parses the rule file if and only if the file exists and its
\* modification time is strictly later than the one recorded at the previous parse
\* (initially 0); in every other load the selectors and the rules of the checker are
\* left unchanged.
C20_ParsedIffNewerThanLastParse ==
    ruleLog.loaded =>
        /\ ruleLog.parsed <=>
              (ruleLog.file.exists /\ ruleLog.file.mtime > ruleLog.lastParseBefore)
        /\ ~ruleLog.parsed => m_rules = ruleLog.rulesBefore

\* C20, amended: a load parses the rule file if and only if the file exists, can be
\* opened, and its modification time is strictly later than the latest modification
\* time an earlier load has found on the file (initially 0); a load that finds the file
\* absent or not later leaves the selectors and the rules unchanged, and a load that
\* finds it later but cannot open it leaves them empty.
C20_ParsedIffNewerThanSeenAndReadable ==
    ruleLog.loaded =>
        LET newer == ruleLog.file.exists /\ ruleLog.file.mtime > ruleLog.maxSeenBefore
        IN  /\ ruleLog.parsed <=> (newer /\ ruleLog.file.readable)
            /\ ~newer => m_rules = ruleLog.rulesBefore /\ bds_rules = ruleLog.rulesBefore
            /\ (newer /\ ~ruleLog.file.readable) => m_rules = NoRules /\ bds_rules = NoRules
            /\ m_rulesFileLastMod = ruleLog.maxSeen

\* C20 witness: a load has found a readable file with other rules than the ones loaded,
\* no later than the file an earlier load has parsed, and has kept the rules it had.
C20_Witness ==
    /\ ruleLog.loaded
    /\ ~ruleLog.parsed
    /\ ruleLog.file.exists /\ ruleLog.file.readable
    /\ ruleLog.file.mtime = ruleLog.lastParseBefore
    /\ Parse(ruleLog.file.content).ok
    /\ m_rules # NoRules
    /\ m_rules.rules # Parse(ruleLog.file.content).rules

\* the load of the current invocation of RunTests has run the parser and the parser
\* has thrown PARSE_ERROR
ParseErrorInLoad ==
    ruleLog.loaded /\ ruleLog.parsed /\ ~Parse(ruleLog.file.content).ok

\* C21: when the parser throws PARSE_ERROR in the load of a RunTests invocation, the
\* selectors and the rules are empty afterwards in the checker and in the board design
\* settings, and the invocation goes on: testOutline follows the load, and the
\* invocation does not return before testNetClasses was called.
C21_ParseErrorLeavesNoRulesAndRunGoesOn ==
    ParseErrorInLoad =>
        /\ m_rules = NoRules
        /\ bds_rules = NoRules
        /\ Len(driversRun) >= 2
        /\ driversRun[1] = "loadRules"
        /\ driversRun[2] = "testOutline"
        /\ pc = "idle" => "testNetClasses" \in DriversCalled

\* C21 witness: an invocation whose load met a malformed rule file has run to its end,
\* the unconnected test included.
C21_Witness ==
    /\ ParseErrorInLoad
    /\ pc = "idle"
    /\ m_drcRun
    /\ "testUnconnected" \in DriversCalled
    /\ Parse(ruleLog.file.content).selectors # <<>>

\* C30: m_drcRun is false after construction and never goes from true to false; it
\* goes from false to true only in the last step of an invocation of RunTests whose
\* net classes passed; and the steps of an invocation that the net classes abort (the
\* start of RunTests and the net class test with its early return) leave m_drcRun,
\* m_footprintsTested and m_footprints as they were.
C30_DrcRunIsMonotone ==
    /\ m_drcRun = FALSE
    /\ [][ /\ m_drcRun => m_drcRun'
           /\ (~m_drcRun /\ m_drcRun') => (pc = "textvars" /\ pc' = "idle" /\ ncRet)
           /\ pc \in {"idle", "netclasses"} =>
                  UNCHANGED <<m_drcRun, m_footprintsTested, m_footprints>> ]_vars

\* C30 witness: a second invocation was aborted by its net classes after a first one
\* that ran to its end and tested the footprints: m_drcRun and m_footprintsTested are
\* still true and the footprint items are still those of the first invocation.
C30_Witness ==
    /\ pc = "idle"
    /\ runId = 2
    /\ ~ncRet
    /\ m_drcRun
    /\ m_footprintsTested
    /\ m_footprints # <<>>
    /\ \A i \in DOMAIN m_footprints : m_footprints[i].run = 1

(* ------------------------------------------------------------------ *)
(* DRC::getLocation: the location of a marker on a track               *)
(* ------------------------------------------------------------------ *)

INT_MAX == 2 ^ (IntBits - 1) - 1
INT_MIN == -(2 ^ (IntBits - 1))

\* n is a value of int
Fits(n) == INT_MIN <= n /\ n <= INT_MAX

\* the value of int that n becomes when the arithmetic wraps around
Wrap(n) == ((n - INT_MIN) % (2 ^ IntBits)) + INT_MIN

Mils2iu(mils) == mils * IU_PER_MILS

\* const int EPSILON = Mils2iu( 5 );
EPSILON == Mils2iu(5)

\* no iteration is started after this many: the loop is followed no further
MaxIters == IntBits + 2

\* the distance of v to the interval lo..hi
Gap(lo, hi, v) == IF v < lo THEN lo - v ELSE IF v > hi THEN v - hi ELSE 0

\* SquaredDistance of the point p to the conflicting shape, a rectangle
\* <<x1, y1, x2, y2>> (a segment when it is flat): 0 inside; computed in 64 bits
SquaredDistance(shape, p) ==
    Gap(shape[1], shape[3], p[1]) ^ 2 + Gap(shape[2], shape[4], p[2]) ^ 2

\* pt1 + pt2 leaves the range of int
SumOverflows(pt1, pt2) == ~Fits(pt1[1] + pt2[1]) \/ ~Fits(pt1[2] + pt2[2])

\* pt1 - pt2 leaves the range of int
DifferenceOverflows(pt1, pt2) == ~Fits(pt1[1] - pt2[1]) \/ ~Fits(pt1[2] - pt2[2])

\* ( pt1 + pt2 ) / 2, with a sum that wraps around when it leaves the range of int
MidPoint(pt1, pt2) == <<CDiv(Wrap(pt1[1] + pt2[1]), 2), CDiv(Wrap(pt1[2] + pt2[2]), 2)>>

\* GetLineLength( pt1, pt2 ) > EPSILON: the length is the hypot of the int differences
LongerThanEpsilon(pt1, pt2) ==
    Wrap(pt1[1] - pt2[1]) ^ 2 + Wrap(pt1[2] - pt2[2]) ^ 2 > EPSILON ^ 2

\* the ends of the tracks of the checked behaviours
PointChoices ==
    { <<x, y>> : x \in {INT_MIN, -1, 0, EPSILON, EPSILON + 1, 2 * EPSILON + 1, INT_MAX - 1,
                        INT_MAX},
                 y \in {0, EPSILON + 2, INT_MAX} }

\* the conflicting shapes: the outlines of zones, and segments
ShapeChoices(fn) ==
    IF fn = "zone"
    THEN { <<0, 0, 1, 1>>, <<INT_MAX - 2, -1, INT_MAX, 1>>, <<-1, EPSILON + 1, 0, INT_MAX>> }
    ELSE { <<0, 0, 0, 0>>, <<INT_MAX - 1, 0, INT_MAX, 0>>, <<-1, EPSILON + 2, 3 * EPSILON, EPSILON + 2>> }

InitLocation ==
    /\ pc = "gl_idle"
    /\ ignored = {}
    /\ zones = <<>>
    /\ pads = <<>>
    /\ markers = <<>>
    /\ handed = <<>>
    /\ g = Minimums(0, 0)
    /\ netclasses = [Default |-> UniformClass("Default", 0), classes |-> <<>>]
    /\ ncRet = TRUE
    /\ modules = <<>>
    /\ netlist = <<>>
    /\ m_footprints = <<>>
    /\ InitDRC
    /\ m_pcb = EmptyBoard
    /\ isSingle = FALSE
    /\ rulesFile = NoRulesFile

\* what a step of getLocation leaves alone
OnlyLocation ==
    UNCHANGED <<ignored, markers, handed, ncVars, fpVars, runVars, ruleVars, boardVars, urVars,
                logVars>>

\* getLocation up to its loop, for a track from a to b and a conflicting shape: the zone
\* form returns the middle of the track when it is in the zone. An overflow of the int
\* sum is undefined: the build wraps around (ub = "wrap") or traps (ub = "trap").
getLocation_Begin ==
    /\ pc = "gl_idle"
    /\ \E fn \in {"zone", "seg"}, ub \in {"wrap", "trap"}, a \in PointChoices,
          b \in PointChoices :
          \E shape \in ShapeChoices(fn) :
             LET l == [fn |-> fn, ub |-> ub, a |-> a, b |-> b, shape |-> shape,
                       pt1 |-> a, pt2 |-> b, iters |-> 0, ret |-> <<0, 0>>]
             IN  IF fn = "seg"
                 THEN loc' = l /\ pc' = "gl_loop"
                 ELSE IF SumOverflows(a, b) /\ ub = "trap"
                 THEN loc' = l /\ pc' = "gl_trap"
                 ELSE IF SquaredDistance(shape, MidPoint(a, b)) = 0
                 THEN loc' = [l EXCEPT !.ret = MidPoint(a, b)] /\ pc' = "gl_done"
                 ELSE loc' = l /\ pc' = "gl_loop"
    /\ OnlyLocation

\* one iteration of the loop: the track from pt1 to pt2 is longer than EPSILON, and the
\* end farther from the shape is moved to the middle
getLocation_Iterate ==
    /\ pc = "gl_loop"
    /\ loc.iters < MaxIters
    /\ ~(DifferenceOverflows(loc.pt1, loc.pt2) /\ loc.ub = "trap")
    /\ LongerThanEpsilon(loc.pt1, loc.pt2)
    /\ IF SumOverflows(loc.pt1, loc.pt2) /\ loc.ub = "trap"
       THEN pc' = "gl_trap" /\ UNCHANGED loc
       ELSE /\ loc' = IF SquaredDistance(loc.shape, loc.pt1) < SquaredDistance(loc.shape, loc.pt2)
                      THEN [loc EXCEPT !.pt2 = MidPoint(loc.pt1, loc.pt2), !.iters = @ + 1]
                      ELSE [loc EXCEPT !.pt1 = MidPoint(loc.pt1, loc.pt2), !.iters = @ + 1]
            /\ UNCHANGED pc
    /\ OnlyLocation

\* the loop ends: the track from pt1 to pt2 is not longer than EPSILON; return pt1
getLocation_Return ==
    /\ pc = "gl_loop"
    /\ IF DifferenceOverflows(loc.pt1, loc.pt2) /\ loc.ub = "trap"
       THEN pc' = "gl_trap" /\ UNCHANGED loc
       ELSE /\ ~LongerThanEpsilon(loc.pt1, loc.pt2)
            /\ loc' = [loc EXCEPT !.ret = loc.pt1]
            /\ pc' = "gl_done"
    /\ OnlyLocation

NextLocation == getLocation_Begin \/ getLocation_Iterate \/ getLocation_Return

SpecLocation == InitLocation /\ [][NextLocation]_vars

(* ------------------------------------------------------------------ *)
(* Properties of getLocation                                           *)
(* ------------------------------------------------------------------ *)

\* the square of the length of the track
TrackLengthSquared == (loc.a[1] - loc.b[1]) ^ 2 + (loc.a[2] - loc.b[2]) ^ 2

\* n iterations are within log2(trackLength / EPSILON), rounded up to a whole number
WithinIterationBound(n) == n = 0 \/ 4 ^ (n - 1) * EPSILON ^ 2 < TrackLengthSquared

\* the point p is within d of the segment from a to b
WithinOfSegment(p, a, b, d) ==
    LET abx == b[1] - a[1]
        aby == b[2] - a[2]
        apx == p[1] - a[1]
        apy == p[2] - a[2]
        dot == apx * abx + apy * aby
        len2 == abx * abx + aby * aby
        cross == apx * aby - apy * abx
    IN  IF len2 = 0 \/ dot <= 0
        THEN apx * apx + apy * apy <= d * d
        ELSE IF dot >= len2
        THEN (p[1] - b[1]) ^ 2 + (p[2] - b[2]) ^ 2 <= d * d
        ELSE cross * cross <= d * d * len2

\* C22: for every track and every conflicting shape the bisection ends, after no more
\* iterations than log2(trackLength / EPSILON) (rounded up), and the point it returns
\* is within EPSILON of the track.
C22_BisectionEndsNearTrack ==
    /\ pc # "gl_trap"
    /\ pc \in {"gl_loop", "gl_done"} => WithinIterationBound(loc.iters)
    /\ pc = "gl_done" => WithinOfSegment(loc.ret, loc.a, loc.b, EPSILON)

(* ------------------------------------------------------------------ *)
(* board_undo_redo.cpp: the undo and redo commands of the board editor *)
(* ------------------------------------------------------------------ *)

\* the most items that ever exist, and the most commands the two lists hold together
MaxItems == 2
MaxCommands == 2

\* ITEM_PICKER: the item, its link and its status
ItemPicker(item, link, status) ==
    [m_Item |-> item, m_Link |-> link, m_UndoRedoStatus |-> status]

\* new PICKED_ITEMS_LIST(); commandToUndo->m_TransformPoint = aTransformPoint
NewCommand(aTransformPoint) ==
    [m_TransformPoint |-> aTransformPoint, m_ItemsList |-> <<>>]

\* PICKED_ITEMS_LIST::PushItem, GetCount and SetItemStatus
PushItem(cmd, wrapper) == [cmd EXCEPT !.m_ItemsList = Append(@, wrapper)]
GetCount(cmd) == Len(cmd.m_ItemsList)
SetItemStatus(cmd, status, ii) == [cmd EXCEPT !.m_ItemsList[ii].m_UndoRedoStatus = status]

\* UNDO_REDO_CONTAINER::PushCommand and PopCommand: the last command pushed is the
\* first popped, and m_CommandsList[0] is the oldest
PushCommand(list, cmd) == Append(list, cmd)
PopCommand(list) == [cmd |-> list[Len(list)], list |-> SubSeq(list, 1, Len(list) - 1)]

\* DuplicateStruct: its switch has a default case only, so newItem stays NULL
DuplicateStruct(aItem) == NULL

\* the statuses of ClearUndoORRedoList whose items the picker owns, but UR_NEW as well
OwnedByPicker_newToo(status) ==
    status \notin {"UR_MOVED", "UR_MIRRORED_X", "UR_MIRRORED_Y", "UR_ROTATED"}

\* the statuses of ClearUndoORRedoList whose items the picker owns: delete item
OwnedByPicker(status) ==
    status \notin {"UR_MOVED", "UR_MIRRORED_X", "UR_MIRRORED_Y", "UR_ROTATED", "UR_NEW"}

\* the loop while( 1 ) of ClearUndoORRedoList for one command: PopItem takes the last
\* wrapper, a NULL item ends the loop; the items deleted, in order
RECURSIVE DeleteItemsOf(_, _)
DeleteItemsOf(wrappers, deleted) ==
    IF wrappers = <<>> \/ wrappers[Len(wrappers)].m_Item = NULL
    THEN deleted
    ELSE LET wrapper == wrappers[Len(wrappers)]
         IN  DeleteItemsOf(SubSeq(wrappers, 1, Len(wrappers) - 1),
                           IF OwnedByPicker(wrapper.m_UndoRedoStatus)
                           THEN Append(deleted, wrapper.m_Item)
                           ELSE deleted)

\* the loop for( ii < icnt ) of ClearUndoORRedoList: m_CommandsList[0] is erased
RECURSIVE ClearLoop(_, _, _)
ClearLoop(list, icnt, deleted) ==
    IF icnt = 0 \/ Len(list) = 0
    THEN [list |-> list, deleted |-> deleted]
    ELSE ClearLoop(Tail(list), icnt - 1, DeleteItemsOf(Head(list).m_ItemsList, deleted))

\* PCB_SCREEN::ClearUndoORRedoList( aList, aItemCount ): the list that is left and the
\* items that were deleted
ClearUndoORRedoList(aList, aItemCount) ==
    IF aItemCount = 0
    THEN [list |-> aList, deleted |-> <<>>]
    ELSE ClearLoop(aList, IF aItemCount > 0 THEN aItemCount ELSE Len(aList), <<>>)

\* the default of aItemCount: all the commands
AllCommands == -1

\* as SaveCommandToUndo, but the redo list is kept
SaveCommandToUndo_keepRedo(commandToUndo, undoList, redoList) ==
    IF GetCount(commandToUndo) # 0
    THEN [undo |-> PushCommand(undoList, commandToUndo), redo |-> redoList, deleted |-> <<>>]
    ELSE [undo |-> undoList, redo |-> redoList, deleted |-> <<>>]

\* the end of both forms of SaveCopyInUndoList: if( commandToUndo->GetCount() )
\* { PushCommandToUndoList; ClearUndoORRedoList( m_RedoList ); } else delete commandToUndo;
SaveCommandToUndo(commandToUndo, undoList, redoList) ==
    IF GetCount(commandToUndo) # 0
    THEN LET cleared == ClearUndoORRedoList(redoList, AllCommands)
         IN  [undo |-> PushCommand(undoList, commandToUndo), redo |-> cleared.list,
              deleted |-> cleared.deleted]
    ELSE [undo |-> undoList, redo |-> redoList, deleted |-> <<>>]

\* the switch of SaveCopyInUndoList( BOARD_ITEM*, ... ): the command it has made
SaveCopyInUndoList_Item(aItemToCopy, aCommandType, aTransformPoint) ==
    LET commandToUndo == NewCommand(aTransformPoint)
        CopyOfItem == DuplicateStruct(aItemToCopy)
    IN  CASE aCommandType = "UR_CHANGED" ->
                IF CopyOfItem # NULL
                THEN PushItem(commandToUndo, ItemPicker(CopyOfItem, aItemToCopy, aCommandType))
                ELSE commandToUndo
          [] aCommandType \in {"UR_NEW", "UR_WIRE_IMAGE", "UR_DELETED"} ->
                PushItem(commandToUndo, ItemPicker(aItemToCopy, NULL, aCommandType))
          [] OTHER -> commandToUndo

\* the status of a picked item in SaveCopyInUndoList( PICKED_ITEMS_LIST&, ... )
CommandOf(picked, aTypeCommand) ==
    IF picked.status = "UR_UNSPECIFIED" THEN aTypeCommand ELSE picked.status

\* the loop of SaveCopyInUndoList( PICKED_ITEMS_LIST&, ... ) from item ii on: itemWrapper
\* is declared before the loop, so its m_Link stays what an earlier item has made it
RECURSIVE SaveListLoop(_, _, _, _, _)
SaveListLoop(aItemsList, ii, aTypeCommand, commandToUndo, link) ==
    IF ii > Len(aItemsList)
    THEN commandToUndo
    ELSE LET ItemToCopy == aItemsList[ii].item
             command == CommandOf(aItemsList[ii], aTypeCommand)
             CopyOfItem == DuplicateStruct(ItemToCopy)
         IN  CASE command = "UR_CHANGED" ->
                     SaveListLoop(aItemsList, ii + 1, aTypeCommand,
                                  IF CopyOfItem # NULL
                                  THEN PushItem(commandToUndo,
                                                ItemPicker(CopyOfItem, ItemToCopy, command))
                                  ELSE commandToUndo,
                                  ItemToCopy)
               [] command \in {"UR_MOVED", "UR_MIRRORED_Y", "UR_NEW", "UR_DELETED"} ->
                     SaveListLoop(aItemsList, ii + 1, aTypeCommand,
                                  PushItem(commandToUndo, ItemPicker(ItemToCopy, link, command)),
                                  link)
               [] OTHER ->
                     SaveListLoop(aItemsList, ii + 1, aTypeCommand, commandToUndo, link)

SaveCopyInUndoList_List(aItemsList, aTypeCommand, aTransformPoint) ==
    SaveListLoop(aItemsList, 1, aTypeCommand, NewCommand(aTransformPoint), NULL)

\* -m_TransformPoint
Negated(pt) == <<-pt[1], -pt[2]>>

\* as PutLoop, but the status of a new item stays UR_NEW
RECURSIVE PutLoop_keepsNew(_, _, _, _)
PutLoop_keepsNew(aList, ii, board, as_moved) ==
    IF ii > GetCount(aList)
    THEN [list |-> IF as_moved
                   THEN [aList EXCEPT !.m_TransformPoint = Negated(@)]
                   ELSE aList,
          board |-> board]
    ELSE LET itemWrapper == aList.m_ItemsList[ii]
             item == itemWrapper.m_Item
         IN  CASE itemWrapper.m_UndoRedoStatus = "UR_NEW" ->
                     PutLoop_keepsNew(aList, ii + 1, board \ {item}, as_moved)
               [] itemWrapper.m_UndoRedoStatus = "UR_DELETED" ->
                     PutLoop_keepsNew(SetItemStatus(aList, "UR_NEW", ii), ii + 1,
                                      board \cup {item}, as_moved)
               [] itemWrapper.m_UndoRedoStatus = "UR_MOVED" ->
                     PutLoop_keepsNew(aList, ii + 1, board, TRUE)
               [] OTHER -> PutLoop_keepsNew(aList, ii + 1, board, as_moved)

\* the loop of PutDataInPreviousState from wrapper ii on, and the change of the move
\* vector after it: SwapData changes no item, the move of the items is commented out
RECURSIVE PutLoop(_, _, _, _)
PutLoop(aList, ii, board, as_moved) ==
    IF ii > GetCount(aList)
    THEN [list |-> IF as_moved
                   THEN [aList EXCEPT !.m_TransformPoint = Negated(@)]
                   ELSE aList,
          board |-> board]
    ELSE LET itemWrapper == aList.m_ItemsList[ii]
             item == itemWrapper.m_Item
         IN  CASE itemWrapper.m_UndoRedoStatus = "UR_NEW" ->
                     PutLoop(SetItemStatus(aList, "UR_DELETED", ii), ii + 1,
                             board \ {item}, as_moved)
               [] itemWrapper.m_UndoRedoStatus = "UR_DELETED" ->
                     PutLoop(SetItemStatus(aList, "UR_NEW", ii), ii + 1,
                             board \cup {item}, as_moved)
               [] itemWrapper.m_UndoRedoStatus = "UR_MOVED" ->
                     PutLoop(aList, ii + 1, board, TRUE)
               [] OTHER -> PutLoop(aList, ii + 1, board, as_moved)

\* WinEDA_PcbFrame::PutDataInPreviousState( aList ): the command and the board after it
PutDataInPreviousState(aList, board) == PutLoop(aList, 1, board, FALSE)

\* the items the wrappers of the commands of a list point to
ItemsOf(list) ==
    UNION { { list[c].m_ItemsList[w].m_Item : w \in DOMAIN list[c].m_ItemsList } :
            c \in DOMAIN list } \ {NULL}

\* the items that exist or have existed, and the item the next new BOARD_ITEM is
AllItems == boardItems \cup freed \cup ItemsOf(m_UndoList) \cup ItemsOf(m_RedoList)
NextItem == 1 + Cardinality(AllItems)

\* the lists and the board now
Snapshot == [undo |-> m_UndoList, redo |-> m_RedoList, board |-> boardItems]

\* the history after an operation
Logged(op, type, recorded, deleted) ==
    [op |-> op, prev |-> IF op = "redo" THEN urLog.op ELSE "none", type |-> type,
     recorded |-> recorded,
     deleted |-> Len(deleted)]

\* the set of the elements of a sequence
Range(seq) == { seq[i] : i \in DOMAIN seq }

\* the move vectors and the command types of the checked behaviours
TransformPoints == { <<2, -1>> }
ItemCommandTypes == { "UR_CHANGED", "UR_NEW", "UR_DELETED", "UR_MOVED" }
ListCommandTypes == { "UR_DELETED", "UR_CHANGED" }

\* the items of a set in a sequence, the smallest first
RECURSIVE Sorted(_)
Sorted(set) ==
    IF set = {}
    THEN <<>>
    ELSE LET least == CHOOSE x \in set : \A y \in set : x <= y
         IN  <<least>> \o Sorted(set \ {least})

\* the lists of picked items a caller hands over: no item, or some items of the board
\* that all have the same status, and after them, or alone, the item the caller has
\* just made
PickedLists ==
    LET old == { [i \in DOMAIN Sorted(chosen) |-> [item |-> Sorted(chosen)[i], status |-> st]] :
                   chosen \in SUBSET boardItems, st \in {"UR_UNSPECIFIED", "UR_MOVED"} }
    IN  old \cup IF NextItem <= MaxItems
                 THEN { Append(l, [item |-> NextItem, status |-> "UR_NEW"]) : l \in old }
                 ELSE {}

\* the board after the caller has added its new items and removed its deleted ones
BoardOfCaller(aItemsList, aTypeCommand) ==
    (boardItems
        \cup { aItemsList[i].item : i \in { k \in DOMAIN aItemsList :
                                            CommandOf(aItemsList[k], aTypeCommand) = "UR_NEW" } })
        \ { aItemsList[i].item : i \in { k \in DOMAIN aItemsList :
                                         CommandOf(aItemsList[k], aTypeCommand) = "UR_DELETED" } }

InitUndo ==
    /\ pc = "ur_idle"
    /\ ignored = {}
    /\ zones = <<>>
    /\ pads = <<>>
    /\ markers = <<>>
    /\ handed = <<>>
    /\ g = Minimums(0, 0)
    /\ netclasses = [Default |-> UniformClass("Default", 0), classes |-> <<>>]
    /\ ncRet = TRUE
    /\ modules = <<>>
    /\ netlist = <<>>
    /\ m_footprints = <<>>
    /\ InitDRC
    /\ m_pcb = EmptyBoard
    /\ isSingle = FALSE
    /\ rulesFile = NoRulesFile

\* what a step of the undo and redo commands leaves alone
OnlyUndo ==
    UNCHANGED <<pc, ignored, markers, handed, ncVars, fpVars, runVars, ruleVars, boardVars,
                locVars, logVars>>

\* a caller adds a new item to the board, removes an item from it, or changes or moves
\* one, and calls SaveCopyInUndoList( item, type, point )
SaveItem ==
    /\ pc = "ur_idle"
    /\ Len(m_UndoList) + Len(m_RedoList) + 1 <= MaxCommands
    /\ \E aCommandType \in ItemCommandTypes, aTransformPoint \in {<<0, 0>>} :
       \E aItemToCopy \in IF aCommandType = "UR_NEW" THEN {NextItem} \cap (1..MaxItems)
                          ELSE boardItems :
          LET board == CASE aCommandType = "UR_NEW" -> boardItems \cup {aItemToCopy}
                         [] aCommandType = "UR_DELETED" -> boardItems \ {aItemToCopy}
                         [] OTHER -> boardItems
              commandToUndo == SaveCopyInUndoList_Item(aItemToCopy, aCommandType,
                                                       aTransformPoint)
              saved == SaveCommandToUndo(commandToUndo, m_UndoList, m_RedoList)
          IN  /\ boardItems' = board
              /\ m_UndoList' = saved.undo
              /\ m_RedoList' = saved.redo
              /\ freed' = freed \cup Range(saved.deleted)
              /\ urLog' = Logged("save", aCommandType, GetCount(commandToUndo),
                                 saved.deleted)
    /\ OnlyUndo

\* a caller adds, removes, changes or moves the items of a list and calls
\* SaveCopyInUndoList( list, type, point )
SaveList ==
    /\ pc = "ur_idle"
    /\ Len(m_UndoList) + Len(m_RedoList) + 1 <= MaxCommands
    /\ \E aTypeCommand \in ListCommandTypes, aTransformPoint \in TransformPoints :
       \E aItemsList \in PickedLists :
          LET commandToUndo == SaveCopyInUndoList_List(aItemsList, aTypeCommand,
                                                       aTransformPoint)
              saved == SaveCommandToUndo(commandToUndo, m_UndoList, m_RedoList)
          IN  /\ boardItems' = BoardOfCaller(aItemsList, aTypeCommand)
              /\ m_UndoList' = saved.undo
              /\ m_RedoList' = saved.redo
              /\ freed' = freed \cup Range(saved.deleted)
              /\ urLog' = Logged("savelist", "none", GetCount(commandToUndo),
                                 saved.deleted)
    /\ OnlyUndo

\* as GetBoardFromUndoList, but the command is not put in the redo list
GetBoardFromUndoList_dropsCommand(now) ==
    IF Len(now.undo) <= 0
    THEN now
    ELSE LET popped == PopCommand(now.undo)
             put == PutDataInPreviousState(popped.cmd, now.board)
         IN  [undo |-> popped.list, redo |-> now.redo, board |-> put.board]

\* WinEDA_PcbFrame::GetBoardFromUndoList: List = PopCommandFromUndoList();
\* PushCommandToRedoList( List ); PutDataInPreviousState( List ); the lists and the
\* board after it
GetBoardFromUndoList(now) ==
    IF Len(now.undo) <= 0
    THEN now
    ELSE LET popped == PopCommand(now.undo)
             put == PutDataInPreviousState(popped.cmd, now.board)
         IN  [undo |-> popped.list, redo |-> PushCommand(now.redo, put.list),
              board |-> put.board]

\* WinEDA_PcbFrame::GetBoardFromRedoList: List = PopCommandFromRedoList();
\* PushCommandToUndoList( List ); PutDataInPreviousState( List )
GetBoardFromRedoList(now) ==
    IF Len(now.redo) = 0
    THEN now
    ELSE LET popped == PopCommand(now.redo)
             put == PutDataInPreviousState(popped.cmd, now.board)
         IN  [undo |-> PushCommand(now.undo, put.list), redo |-> popped.list,
              board |-> put.board]

\* the user undoes the last command
Undo ==
    /\ pc = "ur_idle"
    /\ LET after == GetBoardFromUndoList(Snapshot)
       IN  /\ m_UndoList' = after.undo
           /\ m_RedoList' = after.redo
           /\ boardItems' = after.board
    /\ urLog' = Logged("undo", "none", 0, <<>>)
    /\ UNCHANGED freed
    /\ OnlyUndo

\* the user redoes the last command undone
Redo ==
    /\ pc = "ur_idle"
    /\ LET after == GetBoardFromRedoList(Snapshot)
       IN  /\ m_UndoList' = after.undo
           /\ m_RedoList' = after.redo
           /\ boardItems' = after.board
    /\ urLog' = Logged("redo", "none", 0, <<>>)
    /\ UNCHANGED freed
    /\ OnlyUndo

\* a call of ClearUndoORRedoList for one of the two lists, to remove its old commands
ClearList ==
    /\ pc = "ur_idle"
    /\ \E which \in {"undo", "redo"}, aItemCount \in {AllCommands, 0, 1} :
          LET cleared == ClearUndoORRedoList(IF which = "undo" THEN m_UndoList ELSE m_RedoList,
                                             aItemCount)
          IN  /\ IF which = "undo"
                 THEN m_UndoList' = cleared.list /\ UNCHANGED m_RedoList
                 ELSE m_RedoList' = cleared.list /\ UNCHANGED m_UndoList
              /\ freed' = freed \cup Range(cleared.deleted)
              /\ urLog' = Logged("clear", "none", 0, cleared.deleted)
    /\ UNCHANGED boardItems
    /\ OnlyUndo

NextUndo == SaveItem \/ SaveList \/ Undo \/ Redo \/ ClearList

SpecUndo == InitUndo /\ [][NextUndo]_vars

(* ------------------------------------------------------------------ *)
(* Properties of the undo and redo commands                            *)
(* ------------------------------------------------------------------ *)

\* the last command of a list: the most recent one
LastCommand(list) == list[Len(list)]

\* all the commands of a list but the last
Front(list) == SubSeq(list, 1, Len(list) - 1)

\* the items and the links of the wrappers of a command, in order
PickedOf(cmd) ==
    [i \in DOMAIN cmd.m_ItemsList |->
        <<cmd.m_ItemsList[i].m_Item, cmd.m_ItemsList[i].m_Link>>]

\* the statuses of the wrappers of a command
StatusesOf(cmd) ==
    { cmd.m_ItemsList[i].m_UndoRedoStatus : i \in DOMAIN cmd.m_ItemsList }

\* C23: after SaveCopyInUndoList( item, UR_CHANGED ) for an item that is not NULL the
\* call has put one wrapper in a command and the command in the undo list: the item of
\* the wrapper is a copy (not NULL, not the original) and its link is the original, an
\* item of the board.
C23_ChangedItemIsCopiedToUndoList ==
    (urLog.op = "save" /\ urLog.type = "UR_CHANGED") =>
        /\ urLog.recorded = 1
        /\ m_UndoList # <<>>
        /\ LET wrappers == LastCommand(m_UndoList).m_ItemsList
           IN  /\ Len(wrappers) = 1
               /\ wrappers[1].m_UndoRedoStatus = "UR_CHANGED"
               /\ wrappers[1].m_Link \in boardItems
               /\ wrappers[1].m_Item \notin {NULL, wrappers[1].m_Link}

\* C24: a step of SaveCopyInUndoList, for an item or for a list, that has put at least
\* one wrapper in its command makes the undo list one command longer and the redo list
\* empty; one that has put none leaves both lists as they were.
C24_SaveGrowsUndoAndEmptiesRedo ==
    [][ urLog'.op \in {"save", "savelist"} =>
            IF urLog'.recorded >= 1
            THEN /\ Len(m_UndoList') = Len(m_UndoList) + 1
                 /\ Front(m_UndoList') = m_UndoList
                 /\ m_RedoList' = <<>>
            ELSE UNCHANGED <<m_UndoList, m_RedoList>> ]_vars

\* C24 witness: a call for a list has put two wrappers in its command, after a call
\* that had left a command in the undo list; the redo list is empty.
C24_Witness ==
    /\ urLog.op = "savelist"
    /\ urLog.recorded = 2
    /\ Len(m_UndoList) = 2
    /\ GetCount(LastCommand(m_UndoList)) = 2
    /\ m_RedoList = <<>>

\* C25: an undo that finds a command takes the last command off the undo list and puts
\* that command at the end of the redo list; a redo does the same from the redo list to
\* the undo list; with no command to take both leave the lists and the board as they
\* were; so neither changes the number of commands of the two lists together.
C25_UndoAndRedoMoveTheLastCommand ==
    [][ /\ urLog'.op = "undo" =>
              IF m_UndoList # <<>>
              THEN /\ m_UndoList' = Front(m_UndoList)
                   /\ m_RedoList' # <<>>
                   /\ Front(m_RedoList') = m_RedoList
                   /\ PickedOf(LastCommand(m_RedoList')) = PickedOf(LastCommand(m_UndoList))
              ELSE UNCHANGED <<m_UndoList, m_RedoList, boardItems>>
        /\ urLog'.op = "redo" =>
              IF m_RedoList # <<>>
              THEN /\ m_RedoList' = Front(m_RedoList)
                   /\ m_UndoList' # <<>>
                   /\ Front(m_UndoList') = m_UndoList
                   /\ PickedOf(LastCommand(m_UndoList')) = PickedOf(LastCommand(m_RedoList))
              ELSE UNCHANGED <<m_UndoList, m_RedoList, boardItems>>
        /\ urLog'.op \in {"undo", "redo"} =>
              Len(m_UndoList') + Len(m_RedoList') = Len(m_UndoList) + Len(m_RedoList)
      ]_vars

\* C25 witness: two commands were undone one after the other: the undo list is empty and
\* the redo list holds both, the one saved first at its end.
C25_Witness ==
    /\ urLog.op = "undo"
    /\ m_UndoList = <<>>
    /\ Len(m_RedoList) = 2
    /\ PickedOf(m_RedoList[1]) # PickedOf(m_RedoList[2])

\* C27: where the last command of the undo list is made of UR_NEW, UR_DELETED and
\* UR_MOVED wrappers, GetBoardFromUndoList followed at once by GetBoardFromRedoList
\* leaves the items of the board, the statuses of the wrappers, the transform point of
\* the command and both lists as they are.
C27_UndoThenRedoIsIdentity ==
    (/\ pc = "ur_idle"
     /\ m_UndoList # <<>>
     /\ StatusesOf(LastCommand(m_UndoList)) \subseteq {"UR_NEW", "UR_DELETED", "UR_MOVED"}) =>
        /\ GetBoardFromUndoList(Snapshot) # Snapshot
        /\ GetBoardFromRedoList(GetBoardFromUndoList(Snapshot)) = Snapshot

\* C27 witness: a redo has followed an undo, both of a command that has added an item
\* and moved another by a vector that is not zero; the command is on the undo list
\* again, after an older one.
C27_Witness ==
    /\ urLog.op = "redo"
    /\ urLog.prev = "undo"
    /\ Len(m_UndoList) = 2
    /\ StatusesOf(LastCommand(m_UndoList)) = {"UR_NEW", "UR_MOVED"}
    /\ LastCommand(m_UndoList).m_TransformPoint # <<0, 0>>
    /\ m_RedoList = <<>>

\* C28: no item that ClearUndoORRedoList has deleted, in a call of its own or in the
\* call of SaveCopyInUndoList, is on the board or is the item of a wrapper of a command
\* of the undo list or of the redo list.
C28_ClearDeletesNoItemInUse ==
    \A item \in freed :
        /\ item \notin boardItems
        /\ item \notin ItemsOf(m_UndoList) \cup ItemsOf(m_RedoList)

\* C28 witness: a call of ClearUndoORRedoList has deleted an item while another item is
\* on the board and a command is left in the list.
C28_Witness ==
    /\ urLog.op = "clear"
    /\ urLog.deleted >= 1
    /\ boardItems # {}
    /\ m_UndoList # <<>>

====
